---- MODULE Spec2Model ----
(***************************************************************************)
(* Connection pool of src/pymongo/pool.py: class Pool (idle set, active    *)
(* count, generation, owner pid, admission semaphore) and class SocketInfo *)
(* (generation id, closed flag, authset, last checkout).                   *)
(*                                                                         *)
(* Granularity.  One step is one `with self.lock:` block, one semaphore    *)
(* call, one connect(), or one run of statements that touch only the       *)
(* calling thread's own record.  Unlocked reads of shared fields           *)
(* (self.pool_id in return_socket, len(self.sockets) + self.active_sockets *)
(* in remove_stale_sockets) are steps of their own, so that another        *)
(* thread may run between the read and the locked block that follows.      *)
(* reset() is one step: its close loop runs on records that left the idle  *)
(* set under the lock and that no other thread can reach.                  *)
(***************************************************************************)
EXTENDS Integers, Sequences, FiniteSets, TLC

\* ---------------------------------------------------------------- bounds
MaxPoolSize == 2
MaxSocks == 2
MaxResets == 1
MaxForks == 1
MaxTicks == 2

\* _time() counts seconds, max_idle_time_ms counts milliseconds
MsPerSecond == 1000

Threads == {"t1", "t2"}
\* every thread that may call the pool; "t3" runs only where a third caller
\* is needed to fill the wait queue
Callers == Threads \cup {"t3"}
None == 0 - 1

VARIABLES
    opts,            \* PoolOptions: max_pool_size, min_pool_size, wait_queue_timeout, max_idle_time_ms
    check_interval,  \* Pool._check_interval_seconds
    sockets,         \* Pool.sockets: the idle set (record ids)
    active_sockets,  \* Pool.active_sockets
    pool_id,         \* Pool.pool_id: the generation
    pid,             \* Pool.pid: owner pid
    sem,             \* free permits of Pool._socket_semaphore
    curPid,          \* os.getpid()
    now,             \* the monotonic clock in milliseconds: _time() is now / MsPerSecond
    socks,           \* every SocketInfo ever constructed, by id
    pc,              \* per thread: position in the pool call it is in
    sock,            \* per thread: sock_info local (0: none)
    creds,           \* per thread: set(values(all_credentials)) of the current checkout
    permits,         \* per thread: acquires minus releases of the admission semaphore
    adelta,          \* per thread: increments minus decrements of active_sockets
    dbl,             \* per thread: this return_socket is a second one for the same checkout
    warm,            \* per thread: the records its running remove_stale_sockets has added
    handshake,       \* Pool.handshake
    net,             \* the fault a failing connect() meets: <<stage, error>>
    lock,            \* Pool.lock: the thread inside a `with self.lock:` block, or "none"
    orphan,          \* a stream that a failed connect() created is still open
    interrupt,       \* a signal may reach a thread inside a socket call as KeyboardInterrupt
    exc,             \* per thread: the exception propagating out of its pool call
    acopy,           \* per thread: check_auth's local `authset` (the copy of line 504)
    wire             \* the last legacy_write call: its arguments, what it put on the wire, its outcome

vars == <<opts, check_interval, sockets, active_sockets, pool_id, pid, sem, curPid,
          now, socks, pc, sock, creds, permits, adelta, dbl, handshake, net, interrupt,
          exc, acopy, lock, orphan, warm, wire>>

poolVars == <<sockets, active_sockets, pool_id, pid>>
cfgVars == <<opts, check_interval, curPid, handshake, net, interrupt, wire>>
ghostVars == <<permits, adelta, dbl, warm>>
localVars == <<exc, acopy>>

\* ------------------------------------------------------------ credentials
Credentials == {[source |-> "admin", user |-> "u1"], [source |-> "admin", user |-> "u2"],
                [source |-> "test", user |-> "u1"]}
Sources == {c.source : c \in Credentials}
\* all_credentials: dict, maps auth source to MongoCredential
CredMaps == UNION {[S -> Credentials] : S \in SUBSET Sources}
WellFormedMaps == {M \in CredMaps : \A s \in DOMAIN M : M[s].source = s}
Values(M) == {M[s] : s \in DOMAIN M}
NoCredMaps == {M \in WellFormedMaps : DOMAIN M = {}}

\* ------------------------------------------------------- SocketInfo
\* SocketInfo.__init__: authset empty, not closed, stamped with the clock and
\* with the pool's generation at construction time.  born_pid and idle_since
\* are no fields of the class: they record the process that opened the
\* connection and the time at which the record last entered the idle set.
NewSocketInfo == [pool_id |-> pool_id, closed |-> FALSE, authset |-> {}, last_checkout |-> now,
                  born_pid |-> curPid, idle_since |-> now]

\* close() without its try/except: the stream's error reaches the caller
SocketInfo_close_NoExcept(r, streamErr) == [rec |-> [r EXCEPT !.closed = TRUE], raised |-> streamErr]

\* SocketInfo.close: sets closed, calls sock.close() and swallows whatever it
\* raises (streamErr: the underlying close raised).
SocketInfo_close(r, streamErr) == [rec |-> [r EXCEPT !.closed = TRUE], raised |-> FALSE]

CloseIn(ss, i) == [ss EXCEPT ![i] = SocketInfo_close(ss[i], FALSE).rec]
CloseAll(ss, S) == [i \in DOMAIN ss |-> IF i \in S THEN SocketInfo_close(ss[i], FALSE).rec ELSE ss[i]]

\* SocketInfo.check_auth on a socket with authset `cur` and credential values
\* `cached`: the logouts and logins it makes.
Logouts(cur, cached) == IF cached # {} \/ cur # {} THEN cur \ cached ELSE {}
Logins(cur, cached) == IF cached # {} \/ cur # {} THEN cached \ cur ELSE {}
\* check_auth without its logout loop
CheckAuth_NoLogout(cur, cached) == cur \cup Logins(cur, cached)

\* authset once every logout and login succeeded
CheckAuth(cur, cached) == (cur \ Logouts(cur, cached)) \cup Logins(cur, cached)
\* authset when an auth call raised: some logouts done and one failed, or all
\* logouts done, some logins done and one failed
CheckAuthPartial(cur, cached) ==
    {cur \ D : D \in (SUBSET Logouts(cur, cached)) \ {Logouts(cur, cached)}}
    \cup {(cur \ Logouts(cur, cached)) \cup G :
             G \in (SUBSET Logins(cur, cached)) \ {Logins(cur, cached)}}

\* ------------------------------------------------ admission semaphore
\* A counter of free permits, created with max_pool_size of them.  acquire
\* takes one when one is free; release returns one.  Being bounded, the
\* semaphore refuses a release that would exceed its capacity `cap` (the
\* ValueError of a bounded semaphore), which no caller that releases once
\* per acquire ever meets.
SemCanAcquire(s) == s > 0
SemAcquire(s) == s - 1
SemCanRelease(s, cap) == s < cap
SemRelease(s) == s + 1

\* Pool.__init__ that hands wait_queue_multiple itself to the semaphore
MaxWaiters_NoProduct(mps, wqm) == IF wqm = None \/ mps = None THEN None ELSE wqm + 1

\* Pool.__init__, lines 697-702: the cap on waiters handed to the semaphore
MaxWaiters(mps, wqm) == IF wqm = None \/ mps = None THEN None ELSE mps * wqm
max_waiters == MaxWaiters(opts.max_pool_size, opts.wait_queue_multiple)

\* threads blocked inside acquire
Waiting == {t \in Callers : pc[t] = "wait"}
\* acquire fails fast when max_waiters is set and that many threads are
\* already blocked
SemWaitersFull(n, mw) == mw # None /\ n >= mw

\* --------------------------------------------------------------- errors
NoExc == [type |-> "none", msg |-> <<>>]
Error(type) == [type |-> type, msg |-> <<>>]

\* pymongo.errors: NetworkTimeout is an AutoReconnect, which is a
\* ConnectionFailure
IsA(type, cls) ==
    \/ type = cls
    \/ cls = "AutoReconnect" /\ type = "NetworkTimeout"
    \/ cls = "ConnectionFailure" /\ type \in {"AutoReconnect", "NetworkTimeout"}

\* what a socket call may raise as a socket.error
SocketErrors == {"socket.error", "socket.timeout", "SSLError", "SSLError: timed out"}
PlainSocketErrors == {"socket.error", "socket.timeout"}

\* module-level _raise_connection_failure: the type it raises for a
\* socket.error `error`
RaiseConnectionFailure(error) ==
    IF error = "socket.timeout" THEN "NetworkTimeout"
    ELSE IF error = "SSLError: timed out" THEN "NetworkTimeout"
    ELSE "AutoReconnect"

\* _raise_wait_queue_timeout with a message that names neither value
WaitQueueTimeout_NoValues(o) == [type |-> "ConnectionFailure", msg |-> <<>>]

\* _raise_wait_queue_timeout: the message is formatted from max_pool_size
\* and wait_queue_timeout
WaitQueueTimeout(o) ==
    [type |-> "ConnectionFailure", msg |-> <<o.max_pool_size, o.wait_queue_timeout>>]

\* -------------------------------------------------------------- connect
\* The faults a connect() can meet under options `o`, as <<stage, error>>:
\* _create_connection (line 645), wrap_socket when an ssl_context is set
\* (lines 653-656), match_hostname when the context verifies and
\* ssl_match_hostname is set (line 662), the ismaster command when the pool
\* handshakes (lines 743-755).
Faults(o, hs) ==
    {<<"create", e>> : e \in PlainSocketErrors}
    \cup (IF o.ssl_context # "None" THEN {<<"wrap", e>> : e \in SocketErrors} ELSE {})
    \cup (IF o.ssl_context = "CERT_REQUIRED" /\ o.ssl_match_hostname
          THEN {<<"match_hostname", "CertificateError">>} ELSE {})
    \cup (IF hs THEN {<<"ismaster", e>> :
                        e \in IF o.ssl_context # "None" THEN SocketErrors ELSE PlainSocketErrors}
          ELSE {})

\* The type of the exception Pool.connect raises for fault f: wrap_socket's
\* IOError becomes ConnectionFailure in _configured_socket (lines 657-659)
\* and passes connect's `except socket.error`; CertificateError is re-raised
\* (lines 663-665); a socket.error of _create_connection or of the ismaster
\* command reaches line 762.
ConnectRaises(f) ==
    IF f[1] = "wrap" THEN "ConnectionFailure"
    ELSE IF f[1] = "match_hostname" THEN "CertificateError"
    ELSE IF f[2] \in SocketErrors THEN RaiseConnectionFailure(f[2])
    ELSE f[2]

\* the server answers the ismaster command of a handshaking pool with an
\* error: `command` raises OperationFailure (lines 748-755)
ServerFaults(hs) == IF hs THEN {<<"ismaster", "OperationFailure">>} ELSE {}

\* Whether a connect() failing with fault f returns with the stream it
\* created still open.  _create_connection failed: there is no stream.
\* wrap_socket failed: closed at line 658.  match_hostname failed: closed at
\* line 664.  The ismaster command failed: closed at line 761 inside
\* `except socket.error`, which no other exception enters.
LeavesStreamOpen(f) ==
    IF f[1] \in {"create", "wrap", "match_hostname"} THEN FALSE
    ELSE f[2] \notin SocketErrors

\* ----------------------------------------------------------------- lock
\* `with self.lock:` run by thread t: the block runs with the mutex, taken
\* in this step or in a step of its own before (LockAcquire), and releases
\* it at its end
WithLock(t) == lock \in {"none", t} /\ lock' = "none"

\* the positions at which the next statement of thread t is a
\* `with self.lock:` (lines 813, 821, 839, 854, 858, 729; 718 is the first
\* statement of remove_stale_sockets, called by a thread outside the pool)
LockPcs == {"incr", "pop", "fail_decr", "ret_add", "ret_decr", "sw_add", "idle"}

\* thread t takes the free mutex and enters the block
LockAcquire(t) ==
    /\ pc[t] \in LockPcs
    /\ lock = "none"
    /\ lock' = t
    /\ UNCHANGED <<cfgVars, orphan, poolVars, sem, now, socks, pc, sock, creds, ghostVars, localVars>>

\* ---------------------------------------------------------------- reset
\* reset() that forgets the close loop of lines 714-715
ResetOp_NoClose(P, ospid) ==
    [pool_id |-> P.pool_id + 1, pid |-> ospid, sockets |-> {}, active_sockets |-> 0,
     socks |-> P.socks]

\* reset() that forgets to increment pool_id
ResetOp_NoBump(P, ospid) ==
    [pool_id |-> P.pool_id, pid |-> ospid, sockets |-> {}, active_sockets |-> 0,
     socks |-> CloseAll(P.socks, P.sockets)]

\* Pool.reset as a function of the pool state P = [pool_id, pid, sockets,
\* active_sockets, socks] and of os.getpid().
ResetOp(P, ospid) ==
    [pool_id |-> P.pool_id + 1,
     pid |-> ospid,
     sockets |-> {},
     active_sockets |-> 0,
     socks |-> CloseAll(P.socks, P.sockets)]

PoolState == [pool_id |-> pool_id, pid |-> pid, sockets |-> sockets,
              active_sockets |-> active_sockets, socks |-> socks]

\* reset() takes the mutex for lines 708-712 and has released it before the
\* close loop: the step needs the mutex free and leaves it free
DoReset ==
    LET Q == ResetOp(PoolState, curPid) IN
    /\ lock = "none"
    /\ pool_id' = Q.pool_id
    /\ pid' = Q.pid
    /\ sockets' = Q.sockets
    /\ active_sockets' = Q.active_sockets
    /\ socks' = Q.socks

\* reset() that creates the admission semaphore anew
Reset_NewSemaphore(limit) ==
    /\ pool_id < limit
    /\ DoReset
    /\ sem' = opts.max_pool_size
    /\ UNCHANGED <<cfgVars, orphan, lock, now, pc, sock, creds, ghostVars, localVars>>

\* reset() called by any thread (the topology layer calls it on errors)
Reset(limit) ==
    /\ pool_id < limit
    /\ DoReset
    /\ UNCHANGED <<cfgVars, orphan, lock, sem, now, pc, sock, creds, ghostVars, localVars>>

\* ------------------------------------------------------------ get_socket
Rec(t) == socks[sock[t]]

\* _get_socket_no_auth without lines 806-807
GetSocket_NoForkCheck(t) ==
    /\ pc[t] = "idle"
    /\ pc' = [pc EXCEPT ![t] = "acquire"]
    /\ UNCHANGED <<cfgVars, orphan, lock, poolVars, socks, sem, now, sock, creds, ghostVars, localVars>>

\* _get_socket_no_auth, lines 806-807: the unlocked read of self.pid, then in
\* a forked process reset() as a step of its own; then on to acquire
GetSocket(t) ==
    /\ pc[t] \in {"idle", "gs_reset"}
    /\ IF pc[t] = "idle"
       THEN /\ pc' = [pc EXCEPT ![t] = IF pid # curPid THEN "gs_reset" ELSE "acquire"]
            /\ UNCHANGED <<poolVars, socks>>
       ELSE /\ DoReset
            /\ pc' = [pc EXCEPT ![t] = "acquire"]
    /\ UNCHANGED <<cfgVars, orphan, lock, sem, now, sock, creds, ghostVars, localVars>>

\* get_socket that goes on although acquire returned False
Acquire_IgnoreResult(t) ==
    /\ pc[t] = "acquire"
    /\ sem' = IF SemCanAcquire(sem) THEN SemAcquire(sem) ELSE sem
    /\ permits' = [permits EXCEPT ![t] = IF SemCanAcquire(sem) THEN @ + 1 ELSE @]
    /\ pc' = [pc EXCEPT ![t] = "incr"]
    /\ UNCHANGED <<cfgVars, orphan, lock, poolVars, now, socks, sock, creds, adelta, dbl, warm, localVars>>

\* lines 810-811: semaphore.acquire succeeded
Acquire(t) ==
    /\ pc[t] = "acquire"
    /\ SemCanAcquire(sem)
    /\ sem' = SemAcquire(sem)
    /\ permits' = [permits EXCEPT ![t] = @ + 1]
    /\ pc' = [pc EXCEPT ![t] = "incr"]
    /\ UNCHANGED <<cfgVars, orphan, lock, poolVars, now, socks, sock, creds, adelta, dbl, warm, localVars>>

\* line 810: no permit is free and the wait queue has room: the thread
\* blocks inside acquire
AcquireBlock(t) ==
    /\ pc[t] = "acquire"
    /\ ~SemCanAcquire(sem)
    /\ ~SemWaitersFull(Cardinality(Waiting), max_waiters)
    /\ pc' = [pc EXCEPT ![t] = "wait"]
    /\ UNCHANGED <<cfgVars, orphan, lock, poolVars, sem, now, socks, sock, creds, ghostVars, localVars>>

\* lines 810-811: a blocked acquire is woken and takes a permit
AcquireWake(t) ==
    /\ pc[t] = "wait"
    /\ SemCanAcquire(sem)
    /\ sem' = SemAcquire(sem)
    /\ permits' = [permits EXCEPT ![t] = @ + 1]
    /\ pc' = [pc EXCEPT ![t] = "incr"]
    /\ UNCHANGED <<cfgVars, orphan, lock, poolVars, now, socks, sock, creds, adelta, dbl, warm, localVars>>

\* _get_socket_no_auth with the acquire inside the try of line 817: a
\* timeout runs the except clause of lines 837-841
AcquireTimeout_Releases(t) ==
    /\ pc[t] = "wait"
    /\ ~SemCanAcquire(sem)
    /\ opts.wait_queue_timeout # None
    /\ sem' = SemRelease(sem)
    /\ active_sockets' = active_sockets - 1
    /\ exc' = [exc EXCEPT ![t] = WaitQueueTimeout(opts)]
    /\ pc' = [pc EXCEPT ![t] = "raise"]
    /\ UNCHANGED <<cfgVars, orphan, lock, sockets, pool_id, pid, now, socks, sock, creds, ghostVars, acopy>>

\* lines 810-812: the blocked acquire timed out, _raise_wait_queue_timeout
AcquireTimeout(t) ==
    /\ pc[t] = "wait"
    /\ ~SemCanAcquire(sem)
    /\ opts.wait_queue_timeout # None
    /\ exc' = [exc EXCEPT ![t] = WaitQueueTimeout(opts)]
    /\ pc' = [pc EXCEPT ![t] = "raise"]
    /\ UNCHANGED <<cfgVars, orphan, lock, poolVars, sem, now, socks, sock, creds, ghostVars, acopy>>

\* line 810 with max_waiters threads already blocked: acquire fails at once,
\* either by returning False (line 812 raises) or by raising itself
AcquireFailFast(t) ==
    /\ pc[t] = "acquire"
    /\ SemWaitersFull(Cardinality(Waiting), max_waiters)
    /\ \E e \in {WaitQueueTimeout(opts), Error("ExceededMaxWaiters")} :
         exc' = [exc EXCEPT ![t] = e]
    /\ pc' = [pc EXCEPT ![t] = "raise"]
    /\ UNCHANGED <<cfgVars, orphan, lock, poolVars, sem, now, socks, sock, creds, ghostVars, acopy>>

\* the exception leaves the pool call and reaches the caller
Propagate(t) ==
    /\ pc[t] = "raise"
    /\ exc' = [exc EXCEPT ![t] = NoExc]
    /\ pc' = [pc EXCEPT ![t] = "idle"]
    /\ UNCHANGED <<cfgVars, orphan, lock, poolVars, sem, now, socks, sock, creds, ghostVars, acopy>>

\* lines 813-814
IncrActive(t) ==
    /\ pc[t] = "incr"
    /\ WithLock(t)
    /\ active_sockets' = active_sockets + 1
    /\ adelta' = [adelta EXCEPT ![t] = @ + 1]
    /\ pc' = [pc EXCEPT ![t] = "pop"]
    /\ UNCHANGED <<cfgVars, orphan, sockets, pool_id, pid, sem, now, socks, sock, creds, permits, dbl, warm, localVars>>

\* _get_socket_no_auth that reads a record of the idle set without removing it
Pop_NoRemove(t) ==
    /\ pc[t] = "pop"
    /\ WithLock(t)
    /\ IF sockets = {}
       THEN /\ pc' = [pc EXCEPT ![t] = "connect"]
            /\ UNCHANGED <<sockets, sock>>
       ELSE \E s \in sockets :
            /\ sockets' = sockets
            /\ sock' = [sock EXCEPT ![t] = s]
            /\ pc' = [pc EXCEPT ![t] = "vet_pool"]
    /\ UNCHANGED <<cfgVars, orphan, active_sockets, pool_id, pid, sem, now, socks, creds, ghostVars, localVars>>

\* _get_socket_no_auth with the connect of line 825 inside the locked block
\* of lines 821-822
Pop_ConnectsUnderLock(t) ==
    /\ pc[t] = "pop"
    /\ lock \in {"none", t}
    /\ IF sockets = {}
       THEN /\ pc' = [pc EXCEPT ![t] = "connect"]
            /\ lock' = t
            /\ UNCHANGED <<sockets, sock>>
       ELSE \E s \in sockets :
            /\ sockets' = sockets \ {s}
            /\ sock' = [sock EXCEPT ![t] = s]
            /\ pc' = [pc EXCEPT ![t] = "vet_pool"]
            /\ lock' = "none"
    /\ UNCHANGED <<cfgVars, orphan, active_sockets, pool_id, pid, sem, now, socks, creds, ghostVars, localVars>>

\* lines 821-823: pop any idle record under the lock, or KeyError
Pop(t) ==
    /\ pc[t] = "pop"
    /\ WithLock(t)
    /\ IF sockets = {}
       THEN /\ pc' = [pc EXCEPT ![t] = "connect"]
            /\ UNCHANGED <<sockets, sock>>
       ELSE \E s \in sockets :
            /\ sockets' = sockets \ {s}
            /\ sock' = [sock EXCEPT ![t] = s]
            /\ pc' = [pc EXCEPT ![t] = "vet_pool"]
    /\ UNCHANGED <<cfgVars, orphan, active_sockets, pool_id, pid, sem, now, socks, creds, ghostVars, localVars>>

\* Pool.connect succeeded: a new SocketInfo (line 825)
Connect(t) ==
    /\ pc[t] = "connect"
    /\ Len(socks) < MaxSocks
    /\ socks' = Append(socks, NewSocketInfo)
    /\ sock' = [sock EXCEPT ![t] = Len(socks) + 1]
    /\ pc' = [pc EXCEPT ![t] = "vet_new"]
    /\ UNCHANGED <<cfgVars, orphan, lock, poolVars, sem, now, creds, ghostVars, localVars>>

\* Pool.connect raised, at line 825, 831 or 889: on to the except of line 837
ConnectFail(t) ==
    /\ pc[t] \in {"connect", "reconnect_age", "reconnect_live"}
    /\ sock' = [sock EXCEPT ![t] = 0]
    /\ exc' = [exc EXCEPT ![t] = Error(ConnectRaises(net))]
    /\ orphan' = (orphan \/ LeavesStreamOpen(net))
    /\ pc' = [pc EXCEPT ![t] = "fail_release"]
    /\ UNCHANGED <<cfgVars, lock, poolVars, sem, now, socks, creds, ghostVars, acopy>>

\* `_time() - sock_info.last_checkout > limit`, both sides of `-` in
\* seconds and `limit` used as the number it is: with the clock in
\* milliseconds, (now - last_checkout) / MsPerSecond > limit
SecondsExceed(r, limit) == now - r.last_checkout > MsPerSecond * limit

\* lines 827-829 (and 719-722): the comparison of the age with max_idle_time_ms
AgeExceeds(r) == opts.max_idle_time_ms # None /\ SecondsExceed(r, opts.max_idle_time_ms)
\* _check whose probe waits for the interval to pass even when it is 0
ProbeRuns_IgnoresZero(r) == check_interval # None /\ SecondsExceed(r, check_interval)

\* lines 877-881
ProbeRuns(r) == /\ check_interval # None
                /\ (check_interval = 0 \/ SecondsExceed(r, check_interval))

\* lines 827-835 and 843, and _check: the age check, then for a popped record
\* the liveness probe (dead: socket_closed() said closed), then the stamp
Vet(t) ==
    /\ pc[t] \in {"vet_pool", "vet_new"}
    /\ IF AgeExceeds(Rec(t))
       THEN /\ socks' = CloseIn(socks, sock[t])
            /\ pc' = [pc EXCEPT ![t] = "reconnect_age"]
       ELSE \E dead \in IF pc[t] = "vet_pool" /\ ProbeRuns(Rec(t)) THEN BOOLEAN ELSE {FALSE} :
            IF dead
            THEN /\ socks' = CloseIn(socks, sock[t])
                 /\ pc' = [pc EXCEPT ![t] = "reconnect_live"]
            ELSE /\ socks' = [socks EXCEPT ![sock[t]].last_checkout = now]
                 /\ pc' = [pc EXCEPT ![t] = "auth"]
    /\ UNCHANGED <<cfgVars, orphan, lock, poolVars, sem, now, sock, creds, ghostVars, localVars>>

\* the replacement connect of line 831 or 889 succeeded, then the stamp
Reconnect(t) ==
    /\ pc[t] \in {"reconnect_age", "reconnect_live"}
    /\ Len(socks) < MaxSocks
    /\ socks' = Append(socks, NewSocketInfo)
    /\ sock' = [sock EXCEPT ![t] = Len(socks) + 1]
    /\ pc' = [pc EXCEPT ![t] = "auth"]
    /\ UNCHANGED <<cfgVars, orphan, lock, poolVars, sem, now, creds, ghostVars, localVars>>

\* the except of line 837 without the release of line 838
FailRelease_NoRelease(t) ==
    /\ pc[t] = "fail_release"
    /\ pc' = [pc EXCEPT ![t] = "fail_decr"]
    /\ UNCHANGED <<cfgVars, orphan, lock, poolVars, sem, now, socks, sock, creds, ghostVars, localVars>>

\* lines 837-841
FailRelease(t) ==
    /\ pc[t] = "fail_release"
    /\ SemCanRelease(sem, opts.max_pool_size)
    /\ sem' = SemRelease(sem)
    /\ permits' = [permits EXCEPT ![t] = @ - 1]
    /\ pc' = [pc EXCEPT ![t] = "fail_decr"]
    /\ UNCHANGED <<cfgVars, orphan, lock, poolVars, now, socks, sock, creds, adelta, dbl, warm, localVars>>

FailDecr(t) ==
    /\ pc[t] = "fail_decr"
    /\ WithLock(t)
    /\ active_sockets' = active_sockets - 1
    /\ adelta' = [adelta EXCEPT ![t] = @ - 1]
    /\ pc' = [pc EXCEPT ![t] = "raise"]
    /\ UNCHANGED <<cfgVars, orphan, sockets, pool_id, pid, sem, now, socks, sock, creds, permits, dbl, warm, localVars>>

\* get_socket line 791, check_auth succeeded: the socket is yielded
AuthOK(t, Maps) ==
    /\ pc[t] = "auth"
    /\ \E M \in Maps :
         /\ socks' = [socks EXCEPT ![sock[t]].authset = CheckAuth(@, Values(M))]
         /\ creds' = [creds EXCEPT ![t] = Values(M)]
    /\ pc' = [pc EXCEPT ![t] = "body"]
    /\ UNCHANGED <<cfgVars, orphan, lock, poolVars, sem, now, sock, ghostVars, localVars>>

\* line 791, a logout or a login raised: except of line 793
AuthFail(t, Maps) ==
    /\ pc[t] = "auth"
    /\ \E M \in Maps : \E a \in CheckAuthPartial(Rec(t).authset, Values(M)) :
         socks' = [socks EXCEPT ![sock[t]].authset = a]
    /\ exc' = [exc EXCEPT ![t] = Error("OperationFailure")]
    /\ pc' = [pc EXCEPT ![t] = "ret_check"]
    /\ UNCHANGED <<cfgVars, orphan, lock, poolVars, sem, now, sock, creds, ghostVars, acopy>>

\* check_auth step by step.  Line 791 calls it; lines 502-504 read the map
\* and copy the authset, and nothing is sent when both are empty.
CheckAuthBegin(t, Maps) ==
    /\ pc[t] = "auth"
    /\ \E M \in Maps :
         /\ creds' = [creds EXCEPT ![t] = Values(M)]
         /\ pc' = [pc EXCEPT ![t] =
                      IF Values(M) # {} \/ Rec(t).authset # {} THEN "auth_out" ELSE "body"]
    /\ acopy' = [acopy EXCEPT ![t] = Rec(t).authset]
    /\ UNCHANGED <<cfgVars, orphan, lock, poolVars, sem, now, socks, sock, ghostVars, exc>>

\* check_auth whose first loop logs out every credential the socket has
ToLogout_All(t) == acopy[t] \cap Rec(t).authset

\* the credentials the loop of line 507 has still to log out, and the loop
\* of line 511 has still to log in
ToLogout(t) == (acopy[t] \ creds[t]) \cap Rec(t).authset
ToLogin(t) == (creds[t] \ acopy[t]) \ Rec(t).authset

\* check_auth whose second loop may start before the first has ended
Login_Early(t) ==
    /\ pc[t] \in {"auth_out", "auth_in"}
    /\ IF ToLogin(t) # {}
       THEN /\ \E c \in ToLogin(t) :
                 socks' = [socks EXCEPT ![sock[t]].authset = @ \cup {c}]
            /\ UNCHANGED <<pc, acopy>>
       ELSE /\ pc[t] = "auth_in"
            /\ pc' = [pc EXCEPT ![t] = "body"]
            /\ acopy' = [acopy EXCEPT ![t] = {}]
            /\ UNCHANGED socks
    /\ UNCHANGED <<cfgVars, orphan, lock, poolVars, sem, now, sock, creds, ghostVars, exc>>

\* lines 507-509: one pass of the logout loop, or its end
Logout(t) ==
    /\ pc[t] = "auth_out"
    /\ IF ToLogout(t) # {}
       THEN /\ \E c \in ToLogout(t) :
                 socks' = [socks EXCEPT ![sock[t]].authset = @ \ {c}]
            /\ UNCHANGED pc
       ELSE /\ pc' = [pc EXCEPT ![t] = "auth_in"]
            /\ UNCHANGED socks
    /\ UNCHANGED <<cfgVars, orphan, lock, poolVars, sem, now, sock, creds, ghostVars, localVars>>

\* lines 511-513: one pass of the login loop, or its end and the yield of
\* line 792
Login(t) ==
    /\ pc[t] = "auth_in"
    /\ IF ToLogin(t) # {}
       THEN /\ \E c \in ToLogin(t) :
                 socks' = [socks EXCEPT ![sock[t]].authset = @ \cup {c}]
            /\ UNCHANGED <<pc, acopy>>
       ELSE /\ pc' = [pc EXCEPT ![t] = "body"]
            /\ acopy' = [acopy EXCEPT ![t] = {}]
            /\ UNCHANGED socks
    /\ UNCHANGED <<cfgVars, orphan, lock, poolVars, sem, now, sock, creds, ghostVars, exc>>

\* check_auth that adds the credential to authset before it calls
\* auth.authenticate: a login that raises leaves it there
AuthRaise_AddsFirst(t) ==
    /\ \/ pc[t] = "auth_out" /\ ToLogout(t) # {}
       \/ pc[t] = "auth_in" /\ ToLogin(t) # {}
    /\ IF pc[t] = "auth_in"
       THEN \E c \in ToLogin(t) : socks' = [socks EXCEPT ![sock[t]].authset = @ \cup {c}]
       ELSE UNCHANGED socks
    /\ exc' = [exc EXCEPT ![t] = Error("OperationFailure")]
    /\ acopy' = [acopy EXCEPT ![t] = {}]
    /\ creds' = [creds EXCEPT ![t] = {}]
    /\ pc' = [pc EXCEPT ![t] = "ret_check"]
    /\ UNCHANGED <<cfgVars, orphan, lock, poolVars, sem, now, sock, ghostVars>>

\* auth.logout (line 508) or auth.authenticate (line 512) raised: except of
\* line 793
AuthRaise(t) ==
    /\ \/ pc[t] = "auth_out" /\ ToLogout(t) # {}
       \/ pc[t] = "auth_in" /\ ToLogin(t) # {}
    /\ exc' = [exc EXCEPT ![t] = Error("OperationFailure")]
    /\ acopy' = [acopy EXCEPT ![t] = {}]
    /\ creds' = [creds EXCEPT ![t] = {}]
    /\ pc' = [pc EXCEPT ![t] = "ret_check"]
    /\ UNCHANGED <<cfgVars, orphan, lock, poolVars, sem, now, socks, sock, ghostVars>>

\* get_socket that returns the record at the end of the with-block although
\* the caller keeps it checked out: the permit is released and active_sockets
\* decremented while the caller goes on holding the record
BodyExit_ReleasesHeld(t) ==
    /\ pc[t] = "body"
    /\ \E checkout \in BOOLEAN :
         IF checkout
         THEN /\ pc' = [pc EXCEPT ![t] = "held"]
              /\ sem' = SemRelease(sem)
              /\ permits' = [permits EXCEPT ![t] = @ - 1]
         ELSE /\ pc' = [pc EXCEPT ![t] = "ret_check"]
              /\ UNCHANGED <<sem, permits>>
    /\ creds' = [creds EXCEPT ![t] = {}]
    /\ UNCHANGED <<cfgVars, orphan, lock, poolVars, now, socks, sock, adelta, dbl, warm, localVars>>

\* the with-body ended normally: lines 797-799 (checkout: keep checked out)
BodyExit(t) ==
    /\ pc[t] = "body"
    /\ \E checkout \in BOOLEAN :
         pc' = [pc EXCEPT ![t] = IF checkout THEN "held" ELSE "ret_check"]
    /\ creds' = [creds EXCEPT ![t] = {}]
    /\ UNCHANGED <<cfgVars, orphan, lock, poolVars, sem, now, socks, sock, ghostVars, localVars>>

\* the type _raise_connection_failure raises for `error` (lines 549-552):
\* a socket.error converted, anything else as it is
Reraised(error) == IF error \in SocketErrors THEN RaiseConnectionFailure(error) ELSE error

\* _raise_connection_failure without the close of line 548
SocketInfo_raise_NoClose(r, error) == [rec |-> r, type |-> Reraised(error)]

\* SocketInfo._raise_connection_failure (lines 534-552): close the record,
\* then raise the converted socket.error, or the error itself when it is
\* no socket.error
SocketInfo_raise(r, error) ==
    [rec |-> SocketInfo_close(r, FALSE).rec, type |-> Reraised(error)]

\* SocketInfo.command that treats OperationFailure like any other exception
SocketInfo_command_NoReraise(r, error) == SocketInfo_raise(r, error)

\* SocketInfo.command when the framed command function raised `error`
\* (lines 412-424): OperationFailure is re-raised and the record left as it
\* is, every other exception goes to _raise_connection_failure
SocketInfo_command(r, error) ==
    IF error = "OperationFailure" THEN [rec |-> r, type |-> error]
    ELSE SocketInfo_raise(r, error)

\* what a socket call of the with-body may raise: the socket.error the
\* network produces, a KeyboardInterrupt where signals arrive that way
\* (the comment of lines 535-547), or the OperationFailure of a command
\* the server refused.  send_message and receive_message hand every
\* exception of their socket call to _raise_connection_failure too (lines
\* 438-441, 448-452), and the OperationFailure of write_command is raised
\* after the socket calls (line 490).
BodyErrors ==
    ({net[2]} \cap SocketErrors) \cup {"OperationFailure"}
    \cup (IF interrupt THEN {"KeyboardInterrupt"} ELSE {})

\* get_socket whose except clause leaves the record with a caller that asked
\* to keep it checked out
OnBodyError_HonoursCheckout(checkout) == IF checkout THEN "held" ELSE "ret_check"

\* lines 793-796: the except clause calls return_socket, whatever
\* `checkout` is
OnBodyError(checkout) == "ret_check"

\* the with-body raised; lines 793-796
BodyRaise(t) ==
    /\ pc[t] = "body"
    /\ \E error \in BodyErrors :
         /\ socks' = [socks EXCEPT ![sock[t]] = SocketInfo_command(@, error).rec]
         /\ exc' = [exc EXCEPT ![t] = Error(SocketInfo_command(Rec(t), error).type)]
    /\ \E checkout \in BOOLEAN : pc' = [pc EXCEPT ![t] = OnBodyError(checkout)]
    /\ creds' = [creds EXCEPT ![t] = {}]
    /\ UNCHANGED <<cfgVars, orphan, lock, poolVars, sem, now, sock, ghostVars, acopy>>

\* --------------------------------------------------------- legacy_write
\* no legacy_write has been called
NoCall == [called |-> FALSE]

\* SocketInfo.send_message (lines 426-441): DocumentTooLarge before anything
\* is sent when max_doc_size exceeds max_bson_size (too_large); else
\* sock.sendall, whose exception `err` goes to _raise_connection_failure
\* with the message sent in part at most
SendMessage(r, too_large, err) ==
    IF too_large THEN [rec |-> r, io |-> <<>>, raised |-> "DocumentTooLarge"]
    ELSE IF err # "none"
    THEN [rec |-> SocketInfo_raise(r, err).rec, io |-> <<"send_partial">>,
          raised |-> SocketInfo_raise(r, err).type]
    ELSE [rec |-> r, io |-> <<"send">>, raised |-> "none"]

\* SocketInfo.receive_message (lines 443-452): one reply is read, and
\* whatever the read raises goes to _raise_connection_failure
ReceiveMessage(r, err) ==
    IF err # "none"
    THEN [rec |-> SocketInfo_raise(r, err).rec, io |-> <<"recv_failed">>,
          raised |-> SocketInfo_raise(r, err).type]
    ELSE [rec |-> r, io |-> <<"recv">>, raised |-> "none"]

\* legacy_write without the test of lines 466-468
LegacyWrite_NoWritableCheck(r, with_last_error, is_writable, too_large, sendErr, recvErr, gle) ==
    LET s == SendMessage(r, too_large, sendErr)
        v == ReceiveMessage(s.rec, recvErr)
    IN  IF s.raised # "none" \/ ~with_last_error THEN s
        ELSE [rec |-> v.rec, io |-> s.io \o v.io,
              raised |-> IF v.raised # "none" THEN v.raised ELSE gle]

\* SocketInfo.legacy_write (lines 454-473) on record r.  is_writable is
\* the record's field ("True", "False", or "None" without ismaster); sendErr and
\* recvErr are what the socket calls raise, gle what _check_gle_response
\* raises for the reply ("none": nothing).  The result is the record
\* afterwards, the socket calls made in order, and the exception raised.
LegacyWrite(r, with_last_error, is_writable, too_large, sendErr, recvErr, gle) ==
    IF ~with_last_error /\ is_writable # "True"
    THEN [rec |-> r, io |-> <<>>, raised |-> "NotMasterError"]
    ELSE LET s == SendMessage(r, too_large, sendErr)
             v == ReceiveMessage(s.rec, recvErr)
         IN  IF s.raised # "none" \/ ~with_last_error THEN s
             ELSE [rec |-> v.rec, io |-> s.io \o v.io,
                   raised |-> IF v.raised # "none" THEN v.raised ELSE gle]

\* what a socket call of legacy_write may raise
WireErrors ==
    {"none"} \cup ({net[2]} \cap SocketErrors)
    \cup (IF interrupt THEN {"KeyboardInterrupt"} ELSE {})

\* the caller's body calls sock_info.legacy_write on the record it holds; an
\* exception leaves the with-block (lines 793-796)
LegacyWriteCall(t) ==
    /\ pc[t] = "body"
    /\ \E with_last_error \in BOOLEAN, is_writable \in {"True", "False", "None"},
          too_large \in BOOLEAN, sendErr \in WireErrors, recvErr \in WireErrors,
          gle \in {"none", "OperationFailure"} :
         LET v == LegacyWrite(Rec(t), with_last_error, is_writable, too_large,
                              sendErr, recvErr, gle)
         IN  /\ socks' = [socks EXCEPT ![sock[t]] = v.rec]
             /\ wire' = [called |-> TRUE, with_last_error |-> with_last_error,
                         is_writable |-> is_writable, io |-> v.io, raised |-> v.raised,
                         closed |-> v.rec.closed /\ ~Rec(t).closed]
             /\ IF v.raised = "none"
                THEN UNCHANGED <<pc, exc, creds>>
                ELSE /\ exc' = [exc EXCEPT ![t] = Error(v.raised)]
                     /\ pc' = [pc EXCEPT ![t] = "ret_check"]
                     /\ creds' = [creds EXCEPT ![t] = {}]
    /\ UNCHANGED <<opts, check_interval, curPid, handshake, net, interrupt, orphan, lock,
                   poolVars, sem, now, sock, ghostVars, acopy>>

\* the caller of get_socket(checkout=True) calls return_socket
HeldReturn(t) ==
    /\ pc[t] = "held"
    /\ pc' = [pc EXCEPT ![t] = "ret_check"]
    /\ UNCHANGED <<cfgVars, orphan, lock, poolVars, sem, now, socks, sock, creds, ghostVars, localVars>>

\* --------------------------------------------------------- return_socket
\* return_socket without the generation check of lines 851-852
RetCheck_NoGenCheck(t) ==
    /\ pc[t] \in {"ret_check", "ret_reset"}
    /\ IF pc[t] = "ret_reset"
       THEN /\ DoReset
            /\ pc' = [pc EXCEPT ![t] = "ret_release"]
       ELSE IF pid # curPid
       THEN /\ pc' = [pc EXCEPT ![t] = "ret_reset"]
            /\ UNCHANGED <<poolVars, socks>>
       ELSE /\ pc' = [pc EXCEPT ![t] = IF ~Rec(t).closed THEN "ret_add" ELSE "ret_release"]
            /\ UNCHANGED <<poolVars, socks>>
    /\ UNCHANGED <<cfgVars, orphan, lock, sem, now, sock, creds, ghostVars, localVars>>

\* return_socket that adds the record whatever its closed flag says
RetCheck_NoClosedCheck(t) ==
    /\ pc[t] \in {"ret_check", "ret_reset"}
    /\ IF pc[t] = "ret_reset"
       THEN /\ DoReset
            /\ pc' = [pc EXCEPT ![t] = "ret_release"]
       ELSE IF pid # curPid
       THEN /\ pc' = [pc EXCEPT ![t] = "ret_reset"]
            /\ UNCHANGED <<poolVars, socks>>
       ELSE IF Rec(t).pool_id # pool_id
       THEN /\ socks' = CloseIn(socks, sock[t])
            /\ pc' = [pc EXCEPT ![t] = "ret_release"]
            /\ UNCHANGED poolVars
       ELSE /\ pc' = [pc EXCEPT ![t] = "ret_add"]
            /\ UNCHANGED <<poolVars, socks>>
    /\ UNCHANGED <<cfgVars, orphan, lock, sem, now, sock, creds, ghostVars, localVars>>

\* lines 848-853: the unlocked read of self.pid, then in a forked process
\* reset() as a step of its own; else the unlocked reads of self.pool_id and
\* of sock_info.closed
RetCheck(t) ==
    /\ pc[t] \in {"ret_check", "ret_reset"}
    /\ IF pc[t] = "ret_reset"
       THEN /\ DoReset
            /\ pc' = [pc EXCEPT ![t] = "ret_release"]
       ELSE IF pid # curPid
       THEN /\ pc' = [pc EXCEPT ![t] = "ret_reset"]
            /\ UNCHANGED <<poolVars, socks>>
       ELSE IF Rec(t).pool_id # pool_id
       THEN /\ socks' = CloseIn(socks, sock[t])
            /\ pc' = [pc EXCEPT ![t] = "ret_release"]
            /\ UNCHANGED poolVars
       ELSE /\ pc' = [pc EXCEPT ![t] = IF ~Rec(t).closed THEN "ret_add" ELSE "ret_release"]
            /\ UNCHANGED <<poolVars, socks>>
    /\ UNCHANGED <<cfgVars, orphan, lock, sem, now, sock, creds, ghostVars, localVars>>

\* lines 854-855
RetAdd(t) ==
    /\ pc[t] = "ret_add"
    /\ WithLock(t)
    /\ sockets' = sockets \cup {sock[t]}
    /\ socks' = [socks EXCEPT ![sock[t]].idle_since = now]
    /\ pc' = [pc EXCEPT ![t] = "ret_release"]
    /\ UNCHANGED <<cfgVars, orphan, active_sockets, pool_id, pid, sem, now, sock, creds, ghostVars, localVars>>

\* return_socket without the release of line 857
RetRelease_NoRelease(t) ==
    /\ pc[t] = "ret_release"
    /\ pc' = [pc EXCEPT ![t] = "ret_decr"]
    /\ UNCHANGED <<cfgVars, orphan, lock, poolVars, sem, now, socks, sock, creds, ghostVars, localVars>>

\* line 857
RetRelease(t) ==
    /\ pc[t] = "ret_release"
    /\ SemCanRelease(sem, opts.max_pool_size)
    /\ sem' = SemRelease(sem)
    /\ permits' = [permits EXCEPT ![t] = @ - 1]
    /\ pc' = [pc EXCEPT ![t] = "ret_decr"]
    /\ UNCHANGED <<cfgVars, orphan, lock, poolVars, now, socks, sock, creds, adelta, dbl, warm, localVars>>

\* line 857 when every permit is already free: release raises and the error
\* leaves return_socket before lines 858-859
RetReleaseRejected(t) ==
    /\ pc[t] = "ret_release"
    /\ ~SemCanRelease(sem, opts.max_pool_size)
    /\ sock' = [sock EXCEPT ![t] = 0]
    /\ dbl' = [dbl EXCEPT ![t] = FALSE]
    /\ exc' = [exc EXCEPT ![t] = Error("ValueError")]
    /\ pc' = [pc EXCEPT ![t] = "raise"]
    /\ UNCHANGED <<cfgVars, orphan, lock, poolVars, sem, now, socks, creds, permits, adelta, warm, acopy>>

\* lines 858-859; return_socket returns, and get_socket re-raises (line 796)
RetDecr(t) ==
    /\ pc[t] = "ret_decr"
    /\ WithLock(t)
    /\ active_sockets' = active_sockets - 1
    /\ adelta' = [adelta EXCEPT ![t] = @ - 1]
    /\ sock' = [sock EXCEPT ![t] = 0]
    /\ dbl' = [dbl EXCEPT ![t] = FALSE]
    /\ pc' = [pc EXCEPT ![t] = IF exc[t] # NoExc THEN "raise" ELSE "idle"]
    /\ UNCHANGED <<cfgVars, orphan, sockets, pool_id, pid, sem, now, socks, creds, permits, warm, localVars>>

\* lines 858-859, after which the caller calls return_socket(sock_info) again
\* for the same checkout (once in a run: no thread has over-released before)
RetDecrAgain(t) ==
    /\ pc[t] = "ret_decr"
    /\ WithLock(t)
    /\ ~dbl[t]
    /\ \A u \in Threads : permits[u] >= 0
    /\ active_sockets' = active_sockets - 1
    /\ adelta' = [adelta EXCEPT ![t] = @ - 1]
    /\ dbl' = [dbl EXCEPT ![t] = TRUE]
    /\ pc' = [pc EXCEPT ![t] = "ret_check"]
    /\ UNCHANGED <<cfgVars, orphan, sockets, pool_id, pid, sem, now, socks, sock, creds, permits, warm, localVars>>

\* -------------------------------------------------- remove_stale_sockets
Aged == {s \in sockets : AgeExceeds(socks[s])}

\* remove_stale_sockets that evicts every idle record, whatever its age
SweepStart_EvictsAll(t) ==
    /\ pc[t] = "idle"
    /\ WithLock(t)
    /\ sockets' = {}
    /\ socks' = CloseAll(socks, sockets)
    /\ warm' = [warm EXCEPT ![t] = 0]
    /\ pc' = [pc EXCEPT ![t] = "sw_loop"]
    /\ UNCHANGED <<cfgVars, orphan, active_sockets, pool_id, pid, sem, now, sock, creds,
                   permits, adelta, dbl, localVars>>

\* lines 718-724
SweepStart(t) ==
    /\ pc[t] = "idle"
    /\ WithLock(t)
    /\ sockets' = sockets \ Aged
    /\ socks' = CloseAll(socks, Aged)
    /\ warm' = [warm EXCEPT ![t] = 0]
    /\ pc' = [pc EXCEPT ![t] = "sw_loop"]
    /\ UNCHANGED <<cfgVars, orphan, active_sockets, pool_id, pid, sem, now, sock, creds,
                   permits, adelta, dbl, localVars>>

\* remove_stale_sockets whose loop goes on while the pool is at min_pool_size
SweepLoop_OneMore(t) ==
    /\ pc[t] = "sw_loop"
    /\ pc' = [pc EXCEPT ![t] =
                 IF Cardinality(sockets) + active_sockets <= opts.min_pool_size
                 THEN "sw_connect" ELSE "idle"]
    /\ warm' = [warm EXCEPT ![t] =
                   IF Cardinality(sockets) + active_sockets <= opts.min_pool_size
                   THEN @ ELSE 0]
    /\ UNCHANGED <<cfgVars, orphan, lock, poolVars, sem, now, socks, sock, creds,
                   permits, adelta, dbl, localVars>>

\* lines 726-727: the loop condition, read without the lock
SweepLoop(t) ==
    /\ pc[t] = "sw_loop"
    /\ pc' = [pc EXCEPT ![t] =
                 IF Cardinality(sockets) + active_sockets < opts.min_pool_size
                 THEN "sw_connect" ELSE "idle"]
    /\ warm' = [warm EXCEPT ![t] =
                   IF Cardinality(sockets) + active_sockets < opts.min_pool_size
                   THEN @ ELSE 0]
    /\ UNCHANGED <<cfgVars, orphan, lock, poolVars, sem, now, socks, sock, creds,
                   permits, adelta, dbl, localVars>>

\* line 728, connect succeeded
SweepConnect(t) ==
    /\ pc[t] = "sw_connect"
    /\ Len(socks) < MaxSocks
    /\ socks' = Append(socks, NewSocketInfo)
    /\ sock' = [sock EXCEPT ![t] = Len(socks) + 1]
    /\ pc' = [pc EXCEPT ![t] = "sw_add"]
    /\ UNCHANGED <<cfgVars, orphan, lock, poolVars, sem, now, creds, ghostVars, localVars>>

\* line 728, connect raised: the error leaves remove_stale_sockets
SweepConnectFail(t) ==
    /\ pc[t] = "sw_connect"
    /\ exc' = [exc EXCEPT ![t] = Error(ConnectRaises(net))]
    /\ orphan' = (orphan \/ LeavesStreamOpen(net))
    /\ warm' = [warm EXCEPT ![t] = 0]
    /\ pc' = [pc EXCEPT ![t] = "raise"]
    /\ UNCHANGED <<cfgVars, lock, poolVars, sem, now, socks, sock, creds, permits, adelta, dbl, acopy>>

\* lines 729-730
SweepAdd(t) ==
    /\ pc[t] = "sw_add"
    /\ WithLock(t)
    /\ sockets' = sockets \cup {sock[t]}
    /\ socks' = [socks EXCEPT ![sock[t]].idle_since = now]
    /\ sock' = [sock EXCEPT ![t] = 0]
    /\ warm' = [warm EXCEPT ![t] = @ + 1]
    /\ pc' = [pc EXCEPT ![t] = "sw_loop"]
    /\ UNCHANGED <<cfgVars, orphan, active_sockets, pool_id, pid, sem, now, creds,
                   permits, adelta, dbl, localVars>>

\* ----------------------------------------------------------------- clock
\* time passes, by a millisecond or by a second
Tick ==
    /\ (now % MsPerSecond) + (now \div MsPerSecond) < MaxTicks
    /\ \E d \in {1, MsPerSecond} : now' = now + d
    /\ UNCHANGED <<cfgVars, orphan, lock, poolVars, sem, socks, pc, sock, creds, ghostVars, localVars>>

\* ------------------------------------------------------------------ fork
\* The process forks in thread t, which is outside the pool or keeps a
\* record checked out (get_socket(checkout=True)).  The model goes on as the
\* child: it has a copy of the pool and of its records, a new pid, and of
\* the parent's threads only t; the other callers are threads the child
\* starts afterwards.
Fork(t) ==
    /\ pc[t] \in {"idle", "held"}
    /\ curPid <= MaxForks
    /\ curPid' = curPid + 1
    /\ pc' = [u \in Callers |-> IF u = t THEN pc[t] ELSE "idle"]
    /\ sock' = [u \in Callers |-> IF u = t THEN sock[t] ELSE 0]
    /\ creds' = [u \in Callers |-> IF u = t THEN creds[t] ELSE {}]
    /\ permits' = [u \in Callers |-> IF u = t THEN permits[t] ELSE 0]
    /\ adelta' = [u \in Callers |-> IF u = t THEN adelta[t] ELSE 0]
    /\ dbl' = [u \in Callers |-> FALSE]
    /\ warm' = [u \in Callers |-> 0]
    /\ exc' = [u \in Callers |-> NoExc]
    /\ acopy' = [u \in Callers |-> {}]
    /\ UNCHANGED <<opts, check_interval, handshake, net, interrupt, wire, lock, orphan, poolVars,
                 sem, now, socks>>

\* ------------------------------------------------------- specifications
\* Pool.__init__ (lines 683-705) for the options `o`
InitPool(o) ==
    /\ opts = o
    /\ sockets = {}
    /\ active_sockets = 0
    /\ pool_id = 0
    /\ curPid = 1
    /\ pid = curPid
    /\ sem = o.max_pool_size
    /\ now = 0
    /\ socks = <<>>
    /\ pc = [t \in Callers |-> "idle"]
    /\ sock = [t \in Callers |-> 0]
    /\ creds = [t \in Callers |-> {}]
    /\ permits = [t \in Callers |-> 0]
    /\ adelta = [t \in Callers |-> 0]
    /\ dbl = [t \in Callers |-> FALSE]
    /\ warm = [t \in Callers |-> 0]
    /\ exc = [t \in Callers |-> NoExc]
    /\ acopy = [t \in Callers |-> {}]
    /\ lock = "none"
    /\ orphan = FALSE
    /\ wire = NoCall

\* Options of the untimed specifications: max_pool_size set, min_pool_size at
\* most max_pool_size, no max_idle_time_ms; the liveness probe runs on every
\* popped record (_check_interval_seconds = 0) and may find it dead or alive.
PoolOpts ==
    {o \in [max_pool_size : 1..MaxPoolSize, min_pool_size : 0..MaxPoolSize,
            wait_queue_timeout : {1}, max_idle_time_ms : {None},
            wait_queue_multiple : {None}, ssl_context : {"None"},
            ssl_match_hostname : {TRUE}] :
       o.min_pool_size <= o.max_pool_size}

\* the pool handshakes, a connect() that fails was refused, and a socket
\* call raises nothing but socket.error (regular Python)
PlainNet ==
    /\ handshake = TRUE
    /\ net = <<"create", "socket.error">>
    /\ interrupt = FALSE

Init ==
    /\ \E o \in PoolOpts : InitPool(o)
    /\ check_interval = 0
    /\ PlainNet

\* get_socket up to the hand-over, and its failure after admission and
\* before authentication
Checkout(t, Maps) ==
    \/ GetSocket(t) \/ Acquire(t) \/ IncrActive(t) \/ Pop(t)
    \/ Connect(t) \/ ConnectFail(t) \/ Vet(t) \/ Reconnect(t)
    \/ FailRelease(t) \/ FailDecr(t)
    \/ AuthOK(t, Maps)

\* get_socket with check_auth taken one logout or login at a time
CheckoutStepwise(t, Maps) ==
    \/ GetSocket(t) \/ Acquire(t) \/ IncrActive(t) \/ Pop(t)
    \/ Connect(t) \/ ConnectFail(t) \/ Vet(t) \/ Reconnect(t)
    \/ FailRelease(t) \/ FailDecr(t)
    \/ CheckAuthBegin(t, Maps) \/ Logout(t) \/ Login(t) \/ AuthRaise(t)

\* the end of the with-block, and return_socket
Return(t) ==
    \/ BodyExit(t) \/ BodyRaise(t) \/ HeldReturn(t)
    \/ RetCheck(t) \/ RetAdd(t) \/ RetRelease(t) \/ RetDecr(t)
    \/ Propagate(t)

\* a get_socket that finds no permit free: it blocks, and is woken or times out
Blocked(t) == AcquireBlock(t) \/ AcquireWake(t) \/ AcquireTimeout(t)

Sweep(t) ==
    \/ SweepStart(t) \/ SweepLoop(t) \/ SweepConnect(t) \/ SweepConnectFail(t) \/ SweepAdd(t)

\* Threads calling get_socket (without credentials), return_socket,
\* remove_stale_sockets and reset in any interleaving.
Next ==
    \/ \E t \in Threads : Checkout(t, NoCredMaps) \/ Blocked(t) \/ Return(t) \/ Sweep(t)
    \/ Reset(MaxResets)

Spec == Init /\ [][Next]_vars

\* One thread calling get_socket with any credential map, where a logout or
\* a login may fail, return_socket and reset.  No warm-up: min_pool_size = 0.
\* (A single thread never finds the semaphore empty.)
InitAuth ==
    /\ \E o \in PoolOpts : o.min_pool_size = 0 /\ InitPool(o)
    /\ check_interval = 0
    /\ PlainNet

NextAuth ==
    \/ \E t \in {"t1"} : Checkout(t, WellFormedMaps) \/ AuthFail(t, WellFormedMaps) \/ Return(t)
    \/ Reset(MaxResets)

SpecAuth == InitAuth /\ [][NextAuth]_vars

\* One thread calling the four operations one after the other, with one more
\* reset than Spec allows.
NextSeq ==
    \/ \E t \in {"t1"} : Checkout(t, NoCredMaps) \/ Return(t) \/ Sweep(t)
    \/ Reset(MaxResets + 1)

SpecSeq == Init /\ [][NextSeq]_vars

\* Threads calling get_socket and return_socket, where a caller may call
\* return_socket twice for one checkout.
NextMisuse ==
    \E t \in Threads :
        \/ Checkout(t, NoCredMaps) \/ Blocked(t) \/ Return(t)
        \/ RetDecrAgain(t) \/ RetReleaseRejected(t)

SpecMisuse == InitAuth /\ [][NextMisuse]_vars

\* Threads calling get_socket and return_socket on a pool without
\* wait_queue_timeout.  Every call that has started goes on: a thread that
\* can take a step of its call eventually does, and a caller that was handed
\* a record eventually ends its use and returns it (weak fairness of
\* Progress).  The semaphore is starvation-free, as required of it: a thread
\* for which a permit is free again and again eventually gets one (strong
\* fairness of its acquire).
LiveOpts ==
    [max_pool_size : 1..MaxPoolSize, min_pool_size : {0},
     wait_queue_timeout : {None}, max_idle_time_ms : {None},
     wait_queue_multiple : {None}, ssl_context : {"None"},
     ssl_match_hostname : {TRUE}]

InitLive ==
    /\ \E o \in LiveOpts : InitPool(o)
    /\ check_interval = 0
    /\ PlainNet

\* the steps of a call of thread t that is under way
Progress(t) ==
    \/ AcquireBlock(t) \/ IncrActive(t) \/ Pop(t)
    \/ Connect(t) \/ ConnectFail(t) \/ Vet(t) \/ Reconnect(t)
    \/ FailRelease(t) \/ FailDecr(t) \/ AuthOK(t, NoCredMaps)
    \/ Return(t)

NextLive ==
    \E t \in Threads :
        Checkout(t, NoCredMaps) \/ AcquireBlock(t) \/ AcquireWake(t) \/ Return(t)

SpecLive ==
    /\ InitLive /\ [][NextLive]_vars
    /\ \A t \in Threads : WF_vars(Progress(t))
    /\ \A t \in Threads : SF_vars(Acquire(t) \/ AcquireWake(t))

\* One thread calling get_socket with any credential map and return_socket,
\* the reconciliation of the credentials taken one network call at a time.
NextReconcile ==
    \E t \in {"t1"} : CheckoutStepwise(t, WellFormedMaps) \/ Return(t)

SpecReconcile == InitAuth /\ [][NextReconcile]_vars

\* One thread calling get_socket, return_socket and remove_stale_sockets on
\* a pool with or without TLS, hostname verification and handshake, where
\* the network produces one kind of fault at one stage of connect().
ConnectOpts ==
    [max_pool_size : 1..MaxPoolSize, min_pool_size : {0, 1},
     wait_queue_timeout : {1}, max_idle_time_ms : {None},
     wait_queue_multiple : {None}, ssl_context : {"None", "CERT_NONE", "CERT_REQUIRED"},
     ssl_match_hostname : BOOLEAN]

InitConnect ==
    /\ \E o \in ConnectOpts : InitPool(o) /\ handshake \in BOOLEAN /\ net \in Faults(o, handshake)
    /\ check_interval = 0
    /\ interrupt = FALSE

NextConnect ==
    \E t \in {"t1"} : Checkout(t, NoCredMaps) \/ Return(t) \/ Sweep(t)

SpecConnect == InitConnect /\ [][NextConnect]_vars

\* One thread calling get_socket, return_socket and remove_stale_sockets on
\* a pool with max_idle_time_ms = 1 and the default liveness interval of one
\* second, while time passes.
IdleOpts ==
    {o \in [max_pool_size : 1..MaxPoolSize, min_pool_size : 0..MaxPoolSize,
            wait_queue_timeout : {1}, max_idle_time_ms : {1},
            wait_queue_multiple : {None}, ssl_context : {"None"},
            ssl_match_hostname : {TRUE}] :
       o.min_pool_size <= o.max_pool_size}

InitIdle ==
    /\ \E o \in IdleOpts : InitPool(o)
    /\ check_interval = 1
    /\ PlainNet

NextIdle ==
    \/ \E t \in {"t1"} : Checkout(t, NoCredMaps) \/ Return(t) \/ Sweep(t)
    \/ Tick

SpecIdle == InitIdle /\ [][NextIdle]_vars

\* Threads calling get_socket and return_socket in a process that forks.
NextFork ==
    \E t \in Threads : Checkout(t, NoCredMaps) \/ Blocked(t) \/ Return(t) \/ Fork(t)

SpecFork == InitAuth /\ [][NextFork]_vars

\* Three callers of get_socket and return_socket on a pool with or without
\* a wait_queue_timeout and a wait_queue_multiple; no warm-up.
AdmitOpts ==
    [max_pool_size : 1..MaxPoolSize, min_pool_size : {0},
     wait_queue_timeout : {None, 1}, max_idle_time_ms : {None},
     wait_queue_multiple : {None, 1}, ssl_context : {"None"},
     ssl_match_hostname : {TRUE}]

InitAdmit ==
    /\ \E o \in AdmitOpts : InitPool(o)
    /\ check_interval = 0
    /\ PlainNet

NextAdmit ==
    \E t \in Callers :
        \/ Checkout(t, NoCredMaps) \/ Blocked(t) \/ AcquireFailFast(t) \/ Return(t)

SpecAdmit == InitAdmit /\ [][NextAdmit]_vars

\* the end of the with-block when the body does not raise, and return_socket
ReturnQuiet(t) ==
    \/ BodyExit(t) \/ HeldReturn(t)
    \/ RetCheck(t) \/ RetAdd(t) \/ RetRelease(t) \/ RetDecr(t)
    \/ Propagate(t)

\* One thread calling get_socket with any credential map and return_socket:
\* a connect, a replacement, a logout or a login may fail, the caller's body
\* never does, so every exception that leaves get_socket was raised before
\* the hand-over.
NextAuthFail ==
    \E t \in {"t1"} :
        Checkout(t, WellFormedMaps) \/ AuthFail(t, WellFormedMaps) \/ ReturnQuiet(t)

SpecAuthFail == InitAuth /\ [][NextAuthFail]_vars

\* One thread calling get_socket and return_socket, and reset.  The caller's
\* body may fail with a socket.error or a timeout, with an OperationFailure,
\* and where signals arrive that way with a KeyboardInterrupt.
InitCommand ==
    /\ \E o \in PoolOpts : o.min_pool_size = 0 /\ InitPool(o)
    /\ check_interval = 0
    /\ handshake = TRUE
    /\ \E e \in PlainSocketErrors : net = <<"create", e>>
    /\ interrupt \in BOOLEAN

NextCommand ==
    \/ \E t \in {"t1"} : Checkout(t, NoCredMaps) \/ Return(t)
    \/ Reset(MaxResets)

SpecCommand == InitCommand /\ [][NextCommand]_vars

\* Threads calling get_socket, return_socket and remove_stale_sockets, and
\* reset, with the mutex taken in a step of its own: between that step and
\* the block's own step the other threads run, but none of them enters a
\* locked block.  A thread inside a block goes on (weak fairness of its
\* block): nothing in a block waits for anything.
LockOpts ==
    [max_pool_size : {1}, min_pool_size : {0, 1},
     wait_queue_timeout : {1}, max_idle_time_ms : {None},
     wait_queue_multiple : {None}, ssl_context : {"None"},
     ssl_match_hostname : {TRUE}]

InitLock ==
    /\ \E o \in LockOpts : InitPool(o)
    /\ check_interval = 0
    /\ PlainNet

\* the steps of thread t that are a locked block
LockedSteps(t) ==
    \/ IncrActive(t) \/ Pop(t) \/ FailDecr(t) \/ RetAdd(t) \/ RetDecr(t)
    \/ SweepStart(t) \/ SweepAdd(t)

\* the steps of thread t outside the locked blocks
UnlockedSteps(t) ==
    \/ GetSocket(t) \/ Acquire(t) \/ Blocked(t)
    \/ Connect(t) \/ ConnectFail(t) \/ Vet(t) \/ Reconnect(t) \/ FailRelease(t)
    \/ AuthOK(t, NoCredMaps)
    \/ BodyExit(t) \/ BodyRaise(t) \/ HeldReturn(t)
    \/ RetCheck(t) \/ RetRelease(t) \/ Propagate(t)
    \/ SweepLoop(t) \/ SweepConnect(t) \/ SweepConnectFail(t)

NextLock ==
    \/ \E t \in Threads :
          \/ LockAcquire(t)
          \/ lock = t /\ LockedSteps(t)
          \/ lock # t /\ UnlockedSteps(t)
    \/ Reset(MaxResets)

SpecLock ==
    /\ InitLock /\ [][NextLock]_vars
    /\ \A t \in Threads : WF_vars(lock = t /\ LockedSteps(t))

\* One thread calling get_socket, return_socket and remove_stale_sockets on
\* a handshaking pool with or without TLS, where connect() meets one kind of
\* fault: a network fault at one of its stages, or the server's refusal of
\* the ismaster command.
InitHandshake ==
    /\ \E o \in ConnectOpts : InitPool(o) /\ net \in Faults(o, TRUE) \cup ServerFaults(TRUE)
    /\ handshake = TRUE
    /\ check_interval = 0
    /\ interrupt = FALSE

SpecHandshake == InitHandshake /\ [][NextConnect]_vars

\* time passes while no remove_stale_sockets is running
TickOutsideSweep ==
    /\ \A t \in Callers : pc[t] \notin {"sw_loop", "sw_connect", "sw_add"}
    /\ Tick

\* One thread calling get_socket, return_socket and remove_stale_sockets on
\* a pool with max_idle_time_ms = 1; time passes between the calls of
\* remove_stale_sockets, not during them.
NextSweep ==
    \/ \E t \in {"t1"} : Checkout(t, NoCredMaps) \/ Return(t) \/ Sweep(t)
    \/ TickOutsideSweep

SpecSweep == InitIdle /\ [][NextSweep]_vars

\* One thread calling get_socket, return_socket and remove_stale_sockets
\* while time passes, on a pool with or without max_idle_time_ms and with
\* the liveness probe disabled (None), forced (0) or at its default
\* interval of one second.
ProbeOpts ==
    [max_pool_size : 1..MaxPoolSize, min_pool_size : {0, 1},
     wait_queue_timeout : {1}, max_idle_time_ms : {None, 1},
     wait_queue_multiple : {None}, ssl_context : {"None"},
     ssl_match_hostname : {TRUE}]

InitProbe ==
    /\ \E o \in ProbeOpts : InitPool(o)
    /\ check_interval \in {None, 0, 1}
    /\ PlainNet

SpecProbe == InitProbe /\ [][NextIdle]_vars

\* One thread calling get_socket and return_socket, its body calling
\* legacy_write on the record it holds, acknowledged or not, on a peer that
\* is writable or not, with a document that fits or not, over a network
\* that may fail the send or the receive.
NextWire ==
    \E t \in {"t1"} : Checkout(t, NoCredMaps) \/ LegacyWriteCall(t) \/ Return(t)

SpecWire == InitCommand /\ [][NextWire]_vars

\* Threads calling get_socket and return_socket, and reset, in any
\* interleaving; a caller that finds no permit free waits, and is woken or
\* times out.
NextPermit ==
    \/ \E t \in Threads : Checkout(t, NoCredMaps) \/ Blocked(t) \/ Return(t)
    \/ Reset(MaxResets)

SpecPermit == InitAuth /\ [][NextPermit]_vars

\* ---------------------------------------------------------------- claims
\* threads holding a record they were admitted for and have not yet released
\* the permit of
CheckedOut ==
    {t \in Callers : sock[t] # 0 /\
        pc[t] \in {"vet_pool", "vet_new", "auth", "body", "held", "ret_check", "ret_add", "ret_release"}}

\* C1: in every reachable state active_count + |idle set| <= max_pool_size.
C1_ActivePlusIdleAtMostMax ==
    active_sockets + Cardinality(sockets) <= opts.max_pool_size

\* C2: the number of records checked out at the same time (admitted and not
\* yet returned) never exceeds max_pool_size, also when reset() runs meanwhile.
C2_CheckedOutAtMostMax ==
    Cardinality(CheckedOut) <= opts.max_pool_size

\* C2 witness: max_pool_size = 2 records are checked out and a reset ran
\* while they were.
C2_Witness ==
    /\ opts.max_pool_size = 2
    /\ Cardinality(CheckedOut) = 2
    /\ pool_id > 0
    /\ \A t \in Threads : pc[t] = "body" /\ Rec(t).pool_id < pool_id

\* C3: every record of the idle set has the pool's current generation and is
\* not closed: it had at the moment it was added, and reset() empties the
\* set, so a record of a lower generation is never in the idle set.
C3_IdleRecordsCurrentAndOpen ==
    \A s \in sockets : socks[s].pool_id = pool_id /\ ~socks[s].closed

\* C4: a get_socket that succeeds hands over a record whose generation is at
\* least the generation the latest completed reset() established (the pool's
\* current generation, which only reset() changes).
C4_HandedOutNotOlderThanReset ==
    [][\A t \in Threads :
          (pc[t] = "auth" /\ pc'[t] = "body") => socks'[sock'[t]].pool_id >= pool_id']_vars

\* C5: a reset() step closes every record that was idle and leaves none of
\* them idle, increments generation, sets owner_pid to the current pid and
\* active_count to 0, and leaves every record that was not idle (the
\* checked-out ones) and every thread as it was.
C5_ResetEffect ==
    [][pool_id' # pool_id =>
          /\ \A s \in sockets : socks'[s].closed /\ s \notin sockets'
          /\ pool_id' = pool_id + 1
          /\ pid' = curPid
          /\ active_sockets' = 0
          /\ \A i \in DOMAIN socks : i \notin sockets => socks'[i] = socks[i]
          /\ pc' = pc /\ sock' = sock /\ sem' = sem]_vars

\* C5 witness: after a reset that found a record idle (now closed, of an
\* older generation) while another record was checked out (still open).
C5_Witness ==
    /\ pool_id > 0 /\ sockets = {} /\ active_sockets = 0
    /\ \E i \in DOMAIN socks : socks[i].closed /\ socks[i].pool_id < pool_id
                                /\ \A t \in Threads : sock[t] # i
    /\ \E t \in Threads : pc[t] = "body" /\ ~Rec(t).closed /\ Rec(t).pool_id < pool_id

\* C6: for a socket handed over by a successful get_socket with credential
\* map M, c is in authset iff c is a value of M.
C6_AuthsetIsValuesOfMap ==
    \A t \in Threads : pc[t] = "body" =>
        \A c \in Credentials : c \in Rec(t).authset <=> c \in creds[t]

\* C6 witness: a record handed over with a map of two credentials.
C6_Witness ==
    \E t \in Threads : /\ pc[t] = "body"
                        /\ Cardinality(creds[t]) = 2
                        /\ Rec(t).authset = creds[t]

\* C7: every admitted get_socket releases exactly one permit on every exit
\* path, and one checkout with its return changes active_count by 0: a
\* thread outside the pool holds no permit and has added 0; a thread using
\* a socket holds exactly one and has added 1.
C7_OnePermitPerCheckout ==
    \A t \in Threads :
        /\ permits[t] \in {0, 1}
        /\ pc[t] \in {"idle", "raise"} => (permits[t] = 0 /\ adelta[t] = 0)
        /\ pc[t] \in {"body", "held"} => (permits[t] = 1 /\ adelta[t] = 1)

\* C7 witness: a checkout that failed when replacing a dead pooled record
\* has released its permit and is about to decrement active_count.
C7_Witness ==
    \E t \in Threads : /\ pc[t] = "fail_decr" /\ permits[t] = 0 /\ adelta[t] = 1
                        /\ \E i \in DOMAIN socks : socks[i].closed /\ socks[i].authset # {}

\* C8: a second return_socket(s) for one checkout is rejected or a no-op: it
\* changes neither the idle set, nor the free permits, nor active_count.
C8_SecondReturnIsNoOp ==
    [][\A t \in Threads : (dbl[t] /\ pc'[t] # pc[t]) =>
          (sockets' = sockets /\ sem' = sem /\ active_sockets' = active_sockets)]_vars

\* C9 (as stated): reset(); reset() leaves the same generation, owner_pid,
\* idle set, active_count and closed records as one reset().
C9_ResetTwiceSameState ==
    ResetOp(ResetOp(PoolState, curPid), curPid) = ResetOp(PoolState, curPid)

\* C9 (amended): reset(); reset() leaves the same owner_pid, idle set,
\* active_count and closed records as one reset(), and a generation that is
\* one higher.
C9_ResetTwiceSameButGeneration ==
    LET A == ResetOp(PoolState, curPid)
        B == ResetOp(A, curPid)
    IN  /\ B.pid = A.pid
        /\ B.sockets = A.sockets
        /\ B.active_sockets = A.active_sockets
        /\ B.socks = A.socks
        /\ B.pool_id = A.pool_id + 1

\* C9 witness: two resets have run, the first of which closed an idle record.
C9_Witness ==
    /\ pool_id = 2 /\ sockets = {} /\ active_sockets = 0
    /\ \E i \in DOMAIN socks : socks[i].closed /\ socks[i].pool_id = 0

\* C10: close() is idempotent: after one call the record is closed, a second
\* call leaves the record as the first left it, and neither call raises,
\* whether or not the underlying stream's close raised.
C10_CloseIdempotent ==
    \A i \in DOMAIN socks : \A e1 \in BOOLEAN, e2 \in BOOLEAN :
        LET a == SocketInfo_close(socks[i], e1)
            b == SocketInfo_close(a.rec, e2)
        IN  /\ a.rec.closed /\ ~a.raised
            /\ b.rec = a.rec /\ ~b.raised
            /\ a.rec = [socks[i] EXCEPT !.closed = TRUE]

\* C10 witness: return_socket has closed a record of a stale generation
\* (closed before by an I/O error in the caller's body, or still open).
C10_Witness ==
    \E t \in Threads : /\ pc[t] = "ret_release" /\ sock[t] # 0
                        /\ Rec(t).closed /\ Rec(t).pool_id < pool_id

\* C11: with a wait_queue_timeout set and max_pool_size records checked out
\* and not returned, a get_socket is not admitted: where the wait queue has
\* room it blocks, and a blocked one leaves only by the timeout, failing with
\* a ConnectionFailure whose message names max_pool_size and
\* wait_queue_timeout.
C11_FullPoolTimesOut ==
    [][\A t \in Callers :
          (/\ opts.wait_queue_timeout # None
           /\ Cardinality(CheckedOut) = opts.max_pool_size
           /\ pc'[t] # pc[t]) =>
             /\ pc[t] \in {"acquire", "wait"} => pc'[t] # "incr"
             /\ (pc[t] = "acquire" /\ ~SemWaitersFull(Cardinality(Waiting), max_waiters))
                   => pc'[t] = "wait"
             /\ pc[t] = "wait" =>
                   /\ pc'[t] = "raise"
                   /\ exc'[t].type = "ConnectionFailure"
                   /\ exc'[t].msg = <<opts.max_pool_size, opts.wait_queue_timeout>>]_vars

\* C11 witness: max_pool_size = 2, two callers use their records and the
\* third of the three has timed out waiting.
C11_Witness ==
    /\ opts.max_pool_size = 2 /\ opts.wait_queue_timeout = 1
    /\ pc["t1"] = "body" /\ pc["t2"] = "body"
    /\ pc["t3"] = "raise" /\ exc["t3"] = [type |-> "ConnectionFailure", msg |-> <<2, 1>>]

\* C12: max_waiters is max_pool_size * wait_queue_multiple when both are
\* set and unbounded when either is None; the blocked waiters never exceed
\* it, and once that many are blocked an acquire that finds no permit fails
\* at once instead of blocking.
C12_WaitersBounded ==
    [][/\ max_waiters = (IF opts.wait_queue_multiple = None \/ opts.max_pool_size = None
                          THEN None
                          ELSE opts.max_pool_size * opts.wait_queue_multiple)
       /\ max_waiters # None => Cardinality(Waiting') <= max_waiters
       /\ \A t \in Callers :
             (/\ pc[t] = "acquire" /\ pc'[t] # pc[t]
              /\ ~SemCanAcquire(sem)
              /\ max_waiters # None /\ Cardinality(Waiting) = max_waiters)
                 => pc'[t] = "raise"]_vars

\* C12 witness: max_pool_size = 1, wait_queue_multiple = 1 and no
\* wait_queue_timeout: one caller holds the record, one is blocked, and the
\* third has failed at once.
C12_Witness ==
    /\ opts.max_pool_size = 1 /\ opts.wait_queue_multiple = 1
    /\ opts.wait_queue_timeout = None
    /\ \E a \in Callers, b \in Callers, c \in Callers :
         /\ pc[a] = "body" /\ pc[b] = "wait" /\ pc[c] = "raise"
         /\ exc[c].type \in {"ConnectionFailure", "ExceededMaxWaiters"}

\* C13: a get_socket that finds the process id different from owner_pid
\* runs reset() before it is admitted and before it pops: the reset step
\* empties the idle set and makes owner_pid the current pid, and every
\* record a get_socket obtains was opened by the current process, never
\* one inherited from before the fork.
C13_ForkResetsBeforeCheckout ==
    [][/\ \A t \in Threads :
             pc'[t] \in {"vet_pool", "vet_new", "auth", "body"}
                => socks'[sock'[t]].born_pid = curPid'
       /\ \A t \in Threads :
             (pc[t] = "gs_reset" /\ pc'[t] # pc[t] /\ curPid' = curPid) =>
                /\ pc'[t] = "acquire" /\ permits'[t] = 0
                /\ sockets' = {} /\ pid' = curPid /\ pool_id' = pool_id + 1]_vars

\* C13 witness: in the child a get_socket has handed over a record the
\* child opened, while a record that was idle before the fork exists.
C13_Witness ==
    /\ curPid = 2 /\ pid = 2
    /\ \E t \in Threads : pc[t] = "body" /\ Rec(t).born_pid = 2
    /\ \E i \in DOMAIN socks : socks[i].born_pid = 1 /\ \A t \in Threads : sock[t] # i

\* C14: the reset() that a pid mismatch triggers in get_socket or in
\* return_socket discards the inherited idle records without calling
\* close() on them: they stay as open as they were.
C14_ForkResetDoesNotClose ==
    [][\A t \in Threads :
          (pc[t] \in {"gs_reset", "ret_reset"} /\ pc'[t] # pc[t] /\ curPid' = curPid) =>
             \A s \in sockets : socks'[s].closed = socks[s].closed]_vars

\* C15: with max_idle_time_ms set, a checkout hands over no record whose
\* last_checkout lies more than max_idle_time_ms milliseconds back: a
\* record popped from the idle set that passes the age check and is stamped
\* has an age in milliseconds of at most max_idle_time_ms.
C15_NoRecordOlderThanMaxIdle ==
    [][\A t \in Threads :
          (/\ opts.max_idle_time_ms # None
           /\ pc[t] = "vet_pool" /\ pc'[t] = "auth") =>
             now - Rec(t).last_checkout <= opts.max_idle_time_ms]_vars

\* C16: a return_socket(s) called after a reset() that was issued while s
\* was checked out (s is of an older generation, same process) closes s and
\* goes on to the release without adding s to the idle set.
C16_StaleRecordClosedOnReturn ==
    [][\A t \in Threads :
          (/\ pc[t] = "ret_check" /\ pc'[t] # pc[t]
           /\ pid = curPid /\ Rec(t).pool_id < pool_id) =>
             /\ socks'[sock[t]].closed
             /\ pc'[t] = "ret_release"
             /\ sock[t] \notin sockets']_vars

\* C16 witness: a record that was open when its holder finished normally
\* has been closed by return_socket because a reset ran meanwhile; the idle
\* set is empty and the permit is released.
C16_Witness ==
    \E t \in Threads : /\ pc[t] = "ret_decr" /\ exc[t] = NoExc
                        /\ Rec(t).closed /\ Rec(t).pool_id < pool_id
                        /\ sockets = {} /\ pool_id = 1

\* C17: a socket is handed over only by a check_auth that has finished,
\* with the authset the caller's map asks for; and within one check_auth
\* every logout comes before any login: a logout happens while nothing has
\* been logged in yet, a login once nothing is left to log out.
C17_LogoutsBeforeLoginsBeforeHandOver ==
    [][\A t \in Threads :
          LET before == Rec(t).authset
              after == socks'[sock[t]].authset
          IN  /\ (pc[t] # "body" /\ pc'[t] = "body") =>
                    /\ pc[t] \in {"auth", "auth_in"}
                    /\ after = creds'[t]
              /\ (pc[t] \in {"auth_out", "auth_in"} /\ after # before) =>
                    /\ (after \ before = {}) => before \subseteq acopy[t]
                    /\ (after \ before # {}) =>
                          /\ before \cap (acopy[t] \ creds[t]) = {}
                          /\ before \ after = {}]_vars

\* C17 witness: a pooled socket that was logged in with one credential is
\* checked out with a map of another: the old one is logged out, the new
\* one logged in, and the socket is about to be handed over.
C17_Witness ==
    \E t \in Threads : /\ pc[t] = "auth_in"
                        /\ acopy[t] \ creds[t] # {} /\ creds[t] \ acopy[t] # {}
                        /\ Rec(t).authset = creds[t]

\* C18: an I/O error (a timeout included) met by the caller's command,
\* send or receive on its checked-out socket closes that socket before the
\* error is raised, and the return_socket that follows never adds the
\* socket to the idle set.
C18_IOErrorClosesSocket ==
    [][\A t \in Threads :
          /\ (pc[t] = "body" /\ pc'[t] = "ret_check"
                 /\ IsA(exc'[t].type, "ConnectionFailure"))
                => socks'[sock[t]].closed
          /\ (pc[t] \in {"ret_check", "ret_add", "ret_release", "ret_decr"}
                 /\ IsA(exc[t].type, "ConnectionFailure"))
                => (pc'[t] # "ret_add" /\ sock[t] \notin sockets')]_vars

\* C18 witness: the caller's I/O timed out; its socket is closed, the call
\* to return_socket has released the permit, and the idle set is empty.
C18_Witness ==
    \E t \in Threads : /\ pc[t] = "ret_decr" /\ exc[t] = Error("NetworkTimeout")
                        /\ Rec(t).closed /\ Rec(t).pool_id = pool_id
                        /\ sockets = {}

\* C19: a connect() that fails raises NetworkTimeout when the fault is a
\* timeout (of the TCP connect, of the TLS handshake, of the handshake
\* command), CertificateError on a hostname mismatch, and a
\* ConnectionFailure that is no timeout on any other I/O or TLS error.
C19_ConnectErrorKinds ==
    \A t \in Threads : pc[t] \in {"fail_release", "fail_decr"} =>
        IF net[2] \in {"socket.timeout", "SSLError: timed out"}
        THEN exc[t].type = "NetworkTimeout"
        ELSE IF net[1] = "match_hostname"
        THEN exc[t].type = "CertificateError"
        ELSE IsA(exc[t].type, "ConnectionFailure") /\ exc[t].type # "NetworkTimeout"

\* C20: when every caller that checks out a record eventually returns it,
\* every get_socket that waits for admission without a wait_queue_timeout
\* is eventually admitted; so no permit stays free while a waiter stays
\* blocked.
C20_WaitersEventuallyAdmitted ==
    \A t \in Threads : (pc[t] \in {"acquire", "wait"}) ~> (pc[t] = "incr")

\* C20 witness: on a pool of one permit without wait_queue_timeout, a
\* thread has just been admitted with the permit the other one released
\* in its return_socket.
C20_Witness ==
    /\ opts.max_pool_size = 1 /\ opts.wait_queue_timeout = None
    /\ \E t \in Threads, u \in Threads : pc[t] = "incr" /\ pc[u] = "ret_decr"

\* C21: an error after admission in get_socket (connect failure, failed
\* replacement after eviction, failed logout or login) leaves get_socket
\* with the permit released and active_count decremented, with the record
\* the call held closed (the evicted record when the replacement failed,
\* the record whose authentication failed), and with the error propagating.
C21_ErrorAfterAdmissionCleansUp ==
    [][\A t \in Threads :
          /\ (pc[t] \in {"reconnect_age", "reconnect_live"} /\ pc'[t] = "fail_release")
                => Rec(t).closed
          /\ (pc[t] \in {"fail_decr", "ret_decr"} /\ pc'[t] = "raise") =>
                /\ permits'[t] = 0 /\ adelta'[t] = 0
                /\ exc'[t] # NoExc
                /\ sock[t] # 0 => (Rec(t).closed /\ sock[t] \notin sockets)]_vars

\* the errors of the caller's body that no socket call met: the
\* OperationFailure of a command the server refused
NotIOClass(type) == type = "OperationFailure"

\* C22: when the caller's body raises an error that is no I/O-class error
\* on the socket, get_socket leaves the record as it is and calls
\* return_socket whether or not the record was to be kept checked out;
\* return_socket puts the record, still open, into the idle set when its
\* generation is current, and the same error is raised again.  A body that
\* ends with its socket closed has met an I/O-class error.
C22_NonIOErrorReturnsUnclosed ==
    [][\A t \in Threads :
          /\ (pc[t] = "body" /\ pc'[t] # pc[t] /\ NotIOClass(exc'[t].type)) =>
                /\ pc'[t] = "ret_check"
                /\ socks'[sock[t]] = Rec(t) /\ ~Rec(t).closed
          /\ (pc[t] = "body" /\ pc'[t] # pc[t] /\ socks'[sock[t]].closed) =>
                (exc'[t] # NoExc /\ ~NotIOClass(exc'[t].type))
          /\ (pc[t] = "ret_check" /\ pc'[t] # pc[t] /\ NotIOClass(exc[t].type)
                 /\ pid = curPid /\ Rec(t).pool_id = pool_id) =>
                pc'[t] = "ret_add"
          /\ (pc[t] = "ret_add" /\ pc'[t] # pc[t] /\ NotIOClass(exc[t].type)) =>
                (sock[t] \in sockets' /\ ~socks'[sock[t]].closed)
          /\ (pc[t] \in {"ret_check", "ret_add", "ret_release", "ret_decr"}
                 /\ NotIOClass(exc[t].type) /\ pc'[t] # pc[t]) =>
                /\ exc'[t] = exc[t]
                /\ pc[t] = "ret_decr" => pc'[t] = "raise"]_vars

\* C22 witness: the body raised OperationFailure; return_socket has put the
\* record, open and of the current generation, into the idle set and
\* released the permit, and the error is about to be raised again.
C22_Witness ==
    \E t \in Threads : /\ pc[t] = "ret_decr" /\ exc[t] = Error("OperationFailure")
                        /\ sock[t] \in sockets /\ ~Rec(t).closed
                        /\ Rec(t).pool_id = pool_id /\ pool_id = 1

Holders(i) ==
    {t \in Callers : sock[t] = i /\
        pc[t] \in {"vet_pool", "vet_new", "reconnect_age", "reconnect_live", "auth", "auth_out",
                   "auth_in", "body", "held", "ret_check", "ret_reset", "ret_add"}}

\* the state of record i in the record state machine
IsIdle(i) == i \in sockets
IsClosed(i) == socks[i].closed
IsActive(i) == Holders(i) # {} /\ ~socks[i].closed

C25_ExclusiveOwnership ==
    \A i \in DOMAIN socks :
        LET owners == Holders(i) \cup {t \in Callers : sock[t] = i /\ pc[t] = "sw_add"}
        IN  /\ Cardinality(owners) <= 1
            /\ owners # {} => i \notin sockets

\* C25 witness: two threads were admitted while one record was idle; one
\* has popped it and the other, finding the idle set empty, is about to
\* connect.
C25_Witness ==
    \E t \in Threads, u \in Threads :
        /\ pc[t] = "vet_pool" /\ Holders(sock[t]) = {t}
        /\ pc[u] = "connect" /\ sock[u] = 0
        /\ sockets = {} /\ Len(socks) = 1

\* the positions at which thread t is in, or is about to make, a call that
\* may block: semaphore.acquire (lines 810-811), connect() with its TCP
\* connect, TLS handshake and ismaster command (lines 825, 831, 889, 728),
\* the liveness probe of the stream (line 882), the logouts and logins of
\* check_auth (line 791), and the sends and receives of the caller's body
SuspensionPcs ==
    {"acquire", "wait", "connect", "reconnect_age", "reconnect_live", "sw_connect",
     "vet_pool", "auth", "auth_out", "auth_in", "body"}

\* C26: a thread that holds the pool mutex is never at a suspension point
\* (semaphore.acquire, connect(), the liveness probe, an authentication
\* round-trip, the body's send and receive) in any of get_socket,
\* return_socket, reset and remove_stale_sockets; and so every holding of
\* the mutex ends: the mutex is free again.
C26_MutexNeverHeldAcrossBlocking ==
    /\ [](\A t \in Threads : pc[t] \in SuspensionPcs => lock # t)
    /\ \A t \in Threads : (lock = t) ~> (lock = "none")

\* C26 witness: a thread is inside the locked block of the pop while the
\* other one is blocked in semaphore.acquire.
C26_Witness ==
    \E t \in Threads, u \in Threads :
        /\ lock = t /\ pc[t] = "pop"
        /\ pc[u] = "wait"

\* C27: a connect() that fails after it created the stream (TLS handshake
\* failure, hostname mismatch, socket error of the ismaster command, or the
\* server's refusal of it) has closed the stream when the error surfaces: no
\* stream of a failed connect() stays open.
C27_FailedConnectLeavesNoStream ==
    ~orphan

\* C28 (as stated): when the command of the caller's body raises, an
\* OperationFailure leaves the socket as it was, open; every other exception
\* closes the socket and reaches the caller as a connection failure.
C28_CommandErrorClosesAndConverts ==
    [][\A t \in Threads :
          (pc[t] = "body" /\ pc'[t] # pc[t] /\ exc'[t] # NoExc) =>
             LET after == socks'[sock[t]]
             IN  \/ exc'[t].type = "OperationFailure" /\ after = Rec(t) /\ ~after.closed
                 \/ /\ IsA(exc'[t].type, "ConnectionFailure")
                    /\ after = [Rec(t) EXCEPT !.closed = TRUE]]_vars

\* C28 (amended): an OperationFailure leaves the socket as it was, open;
\* every other exception closes the socket; a socket.error reaches the
\* caller as a connection failure (NetworkTimeout for a timeout,
\* AutoReconnect otherwise), and an exception that is no socket.error
\* reaches the caller as it is.
C28_CommandErrorClosesConvertsSocketErrors ==
    [][\A t \in Threads :
          (pc[t] = "body" /\ pc'[t] # pc[t] /\ exc'[t] # NoExc) =>
             LET after == socks'[sock[t]]
                 type == exc'[t].type
             IN  \/ type = "OperationFailure" /\ after = Rec(t) /\ ~after.closed
                 \/ /\ after = [Rec(t) EXCEPT !.closed = TRUE]
                    /\ \/ type = "NetworkTimeout" /\ net[2] = "socket.timeout"
                       \/ type = "AutoReconnect" /\ net[2] = "socket.error"
                       \/ type = "KeyboardInterrupt" /\ interrupt]_vars

\* C28 witness: a KeyboardInterrupt met in a socket call of the body has
\* closed the socket and is propagating as it is; return_socket has dropped
\* the record.
C28_Witness ==
    \E t \in Threads : /\ pc[t] = "ret_release" /\ exc[t] = Error("KeyboardInterrupt")
                        /\ Rec(t).closed /\ Rec(t).pool_id = pool_id
                        /\ sock[t] \notin sockets

\* C29: with no other pool operation running, remove_stale_sockets returns
\* with idle + active at least min_pool_size, having added exactly
\* max(0, min_pool_size - (idle + active after the eviction)) records: it
\* goes round the loop only below min_pool_size, every round connects one
\* new open record and adds that record to the idle set, and it never adds
\* more than min_pool_size.  A connect() that fails ends the sweep at once:
\* nothing is retried, the pool stays as it is and the error reaches the
\* caller.
C29_SweepMintsDeficit ==
    [][\A t \in Threads :
          LET total == Cardinality(sockets) + active_sockets
              deficit == opts.min_pool_size - (total - warm[t])
          IN  /\ (pc[t] = "sw_loop" /\ pc'[t] = "idle") =>
                    /\ total >= opts.min_pool_size
                    /\ warm[t] = (IF deficit > 0 THEN deficit ELSE 0)
                    /\ sockets' = sockets /\ socks' = socks /\ exc'[t] = NoExc
              /\ (pc[t] = "sw_loop" /\ pc'[t] = "sw_connect") =>
                    (total < opts.min_pool_size /\ warm[t] < opts.min_pool_size)
              /\ (pc[t] = "sw_connect" /\ pc'[t] = "sw_add") =>
                    /\ Len(socks') = Len(socks) + 1 /\ sock'[t] = Len(socks')
                    /\ ~socks'[sock'[t]].closed /\ sockets' = sockets
              /\ (pc[t] = "sw_add" /\ pc'[t] # pc[t]) =>
                    /\ sock[t] \notin sockets /\ sockets' = sockets \cup {sock[t]}
                    /\ active_sockets' = active_sockets
                    /\ warm'[t] = warm[t] + 1 /\ pc'[t] = "sw_loop"
              /\ (pc[t] = "sw_connect" /\ pc'[t] \notin {"sw_connect", "sw_add"}) =>
                    /\ pc'[t] = "raise" /\ exc'[t] # NoExc
                    /\ sockets' = sockets /\ socks' = socks
                    /\ active_sockets' = active_sockets]_vars

\* C29 witness: min_pool_size = 1; the sweep has evicted and closed the one
\* idle record, connected a new one and added it, and is about to return.
C29_Witness ==
    /\ opts.min_pool_size = 1 /\ active_sockets = 0
    /\ \E t \in Threads : pc[t] = "sw_loop" /\ warm[t] = 1
    /\ \E i \in DOMAIN socks, j \in DOMAIN socks :
         /\ socks[i].closed /\ sockets = {j} /\ ~socks[j].closed

\* what remove_stale_sockets leaves when it returns: no idle record is over
\* the age limit and idle + active is at least min_pool_size
Settled ==
    /\ Aged = {}
    /\ Cardinality(sockets) + active_sockets >= opts.min_pool_size

\* C30: a remove_stale_sockets that returns leaves the pool settled, and a
\* remove_stale_sockets called on a settled pool, with the clock where it
\* was and nothing else running, closes no record, connects none and
\* returns with the idle set, active_count and generation it found: so a
\* second call right after the first changes nothing.
C30_SweepIdempotent ==
    [][\A t \in Threads :
          /\ (pc[t] = "sw_loop" /\ pc'[t] = "idle") => Settled'
          /\ (Settled /\ pc[t] = "idle" /\ pc'[t] = "sw_loop") =>
                /\ sockets' = sockets /\ socks' = socks
                /\ active_sockets' = active_sockets /\ pool_id' = pool_id
                /\ Settled'
          /\ (Settled /\ pc[t] = "sw_loop" /\ pc'[t] # pc[t]) =>
                /\ pc'[t] = "idle"
                /\ sockets' = sockets /\ socks' = socks
                /\ active_sockets' = active_sockets /\ pool_id' = pool_id]_vars

\* C30 witness: min_pool_size = 1; a first call evicted and closed an aged
\* record and added a new one; a second call, at the same clock reading, has
\* evicted nothing and is about to return without connecting.
C30_Witness ==
    /\ opts.min_pool_size = 1 /\ Settled /\ now = 2 * MsPerSecond
    /\ \E t \in Threads : pc[t] = "sw_loop" /\ warm[t] = 0
    /\ \E i \in DOMAIN socks, j \in DOMAIN socks :
         /\ socks[i].closed /\ socks[i].last_checkout = 0
         /\ sockets = {j} /\ socks[j].last_checkout = now

\* the record thread t holds was popped from the idle set, is not replaced
\* for its age, and the liveness interval is 0 or has passed (in seconds)
\* since the record's last_checkout
ProbeDue(t) ==
    /\ pc[t] = "vet_pool"
    /\ ~AgeExceeds(Rec(t))
    /\ check_interval # None
    /\ (check_interval = 0 \/ now - Rec(t).last_checkout > check_interval * MsPerSecond)

\* C31: during a checkout the probe can report the stream closed exactly
\* when the record was popped from the idle set, is not replaced for its
\* age, and the interval is 0 or has passed since last_checkout; never when
\* the interval is disabled.  When it does the record is closed and the
\* caller is handed a record connected then; otherwise the caller is handed
\* the popped record itself.
C31_ProbeRunsWhenDue ==
    /\ [](\A t \in Threads :
            pc[t] \in {"vet_pool", "vet_new"} =>
               (ENABLED (Vet(t) /\ pc'[t] = "reconnect_live") <=> ProbeDue(t)))
    /\ [][\A t \in Threads :
            /\ pc'[t] = "reconnect_live" /\ pc[t] # "reconnect_live" =>
                  /\ ProbeDue(t)
                  /\ sock'[t] = sock[t] /\ socks'[sock[t]].closed
            /\ pc[t] = "reconnect_live" /\ pc'[t] = "auth" =>
                  /\ sock'[t] \notin DOMAIN socks
                  /\ ~socks'[sock'[t]].closed /\ socks'[sock[t]].closed
                  /\ sock[t] \notin sockets'
            /\ pc[t] = "vet_pool" /\ pc'[t] = "auth" =>
                  /\ sock'[t] = sock[t]
                  /\ socks'[sock[t]].closed = socks[sock[t]].closed]_vars

\* C31 witness: with the default interval and no max_idle_time_ms, a record
\* popped two seconds after its last checkout was probed, found closed and
\* closed, and the caller now holds a record connected in its place.
C31_Witness ==
    /\ check_interval = 1 /\ opts.max_idle_time_ms = None
    /\ \E t \in Threads :
         /\ pc[t] = "auth" /\ sock[t] = 2 /\ ~socks[2].closed
         /\ socks[1].closed /\ socks[1].last_checkout = 0 /\ now = 2 * MsPerSecond
         /\ sockets = {}

\* C32: when the liveness check found the popped record closed and the
\* connect of its replacement fails, the pool is reset (the generation is
\* incremented and the idle set emptied) and the ConnectionFailure is
\* raised again.
C32_FailedReplacementResetsPool ==
    [][\A t \in Threads :
          (pc[t] = "reconnect_live" /\ pc'[t] = "fail_release") =>
             /\ IsA(exc'[t].type, "ConnectionFailure")
             /\ pool_id' = pool_id + 1
             /\ sockets' = {}]_vars

\* C33: a record is removed and replaced for its age, at checkout or by
\* remove_stale_sockets, only when the time it has spent in the idle set
\* since it was last put there exceeds max_idle_time_ms milliseconds; a
\* record returned after a long use and popped again at once is kept.
C33_EvictedOnlyForIdleTime ==
    [][\A t \in Threads :
          /\ (pc[t] = "vet_pool" /\ pc'[t] = "reconnect_age") =>
                now - Rec(t).idle_since > opts.max_idle_time_ms
          /\ (pc[t] = "idle" /\ pc'[t] = "sw_loop") =>
                \A s \in sockets \ sockets' :
                   now - socks[s].idle_since > opts.max_idle_time_ms]_vars

\* C34 (as stated): a legacy_write without acknowledgement on a peer that
\* is not a writable primary raises NotMasterError, sends nothing and does
\* not close the socket; every other legacy_write performs one complete
\* send and, exactly when acknowledged, one receive after it.
C34_LegacyWritePairing ==
    wire.called =>
       IF ~wire.with_last_error /\ wire.is_writable # "True"
       THEN wire.raised = "NotMasterError" /\ wire.io = <<>> /\ ~wire.closed
       ELSE /\ Len(wire.io) = (IF wire.with_last_error THEN 2 ELSE 1)
            /\ wire.io[1] = "send"
            /\ wire.with_last_error => wire.io[2] \in {"recv", "recv_failed"}

\* C34 (amended): the same, except that a legacy_write whose send_message
\* raises (DocumentTooLarge with nothing sent, or the failure of the send,
\* which closes the socket) ends there, without a complete send and without
\* a receive.
C34_LegacyWritePairingUnlessSendRaises ==
    wire.called =>
       IF ~wire.with_last_error /\ wire.is_writable # "True"
       THEN wire.raised = "NotMasterError" /\ wire.io = <<>> /\ ~wire.closed
       ELSE \/ wire.io = <<>> /\ wire.raised = "DocumentTooLarge" /\ ~wire.closed
            \/ wire.io = <<"send_partial">> /\ wire.raised # "none" /\ wire.closed
            \/ /\ Len(wire.io) = (IF wire.with_last_error THEN 2 ELSE 1)
               /\ wire.io[1] = "send"
               /\ wire.with_last_error => wire.io[2] \in {"recv", "recv_failed"}

\* C34 witness: an unacknowledged legacy_write on a peer that is no
\* writable primary has raised NotMasterError; the record, open, is on its
\* way back to the idle set.
C34_Witness ==
    /\ wire.called /\ ~wire.with_last_error /\ wire.is_writable = "False"
    /\ wire.raised = "NotMasterError"
    /\ \E t \in Threads : pc[t] = "ret_add" /\ exc[t].type = "NotMasterError" /\ ~Rec(t).closed

\* C35: active_count is never negative, also when reset() runs while
\* records are checked out and they are returned afterwards, and on the
\* path of return_socket that a fork takes.
C35_ActiveCountNeverNegative ==
    active_sockets >= 0

\* the calls of get_socket that hold a permit: past the acquire of line 810
\* and before the release of line 838 or 857
Admitted ==
    {t \in Callers : pc[t] \in {"incr", "pop", "connect", "vet_pool", "vet_new",
                                "reconnect_age", "reconnect_live", "fail_release",
                                "auth", "auth_out", "auth_in", "body", "held",
                                "ret_check", "ret_reset", "ret_add", "ret_release"}}

\* C36: within one process and with every record returned at most once, the
\* free permits of the semaphore and the admitted checkouts that have not
\* released theirs add up to max_pool_size in every state, and a reset()
\* changes neither number.
C36_PermitsConserved ==
    /\ [](sem + Cardinality(Admitted) = opts.max_pool_size)
    /\ [][(pool_id' # pool_id /\ pc' = pc) =>
             (sem' = sem /\ Admitted' = Admitted)]_vars

\* C36 witness: max_pool_size = 2, both permits are taken by checkouts that
\* are under way, and a reset() has run meanwhile.
C36_Witness ==
    /\ opts.max_pool_size = 2 /\ sem = 0 /\ pool_id = 1
    /\ \A t \in Threads : pc[t] = "body" /\ Rec(t).pool_id = 0

\* C37: in the child of a fork, once the reset of the pid check has run,
\* the pool admits max_pool_size concurrent checkouts, however many records
\* were checked out in the parent when it forked: the free permits and the
\* checkouts under way in the child add up to max_pool_size.
C37_ChildAdmitsMaxPoolSize ==
    (curPid > 1 /\ pid = curPid) =>
        sem + Cardinality(Admitted) = opts.max_pool_size

\* C38: a get_socket that fails on admission, by the wait_queue_timeout or
\* with max_waiters callers already blocked, and without a change of pid,
\* leaves the pool as it is: none of its steps, from the call to the
\* exception reaching the caller, changes the idle set, active_count, the
\* generation or the free permits, or creates or closes a record.
C38_AdmissionFailureLeavesPool ==
    [][\A t \in Callers :
          (/\ pid = curPid /\ curPid' = curPid
           /\ \/ pc[t] = "idle" /\ pc'[t] = "acquire"
              \/ pc[t] = "acquire" /\ pc'[t] \in {"wait", "raise"}
              \/ pc[t] = "wait" /\ pc'[t] = "raise"
              \/ /\ pc[t] = "raise" /\ pc'[t] = "idle"
                 /\ exc[t] \in {WaitQueueTimeout(opts), Error("ExceededMaxWaiters")})
          => /\ sockets' = sockets /\ active_sockets' = active_sockets
             /\ pool_id' = pool_id /\ sem' = sem /\ socks' = socks]_vars

\* C38 witness: max_pool_size = 1, one caller keeps the only record checked
\* out, and a get_socket that waited for the permit has timed out: the pool
\* still counts one active record, no free permit and one record in all.
C38_Witness ==
    /\ opts.max_pool_size = 1 /\ sem = 0 /\ active_sockets = 1
    /\ Len(socks) = 1 /\ ~socks[1].closed /\ sockets = {}
    /\ \E a \in Callers, b \in Callers :
         /\ pc[a] = "held" /\ sock[a] = 1
         /\ pc[b] = "raise" /\ exc[b] = WaitQueueTimeout(opts)

\* C39: when a logout or a login of check_auth raises, authset holds what
\* the calls that completed made of it.  The failing call changes nothing.
\* If a logout failed: no login was made, only credentials that were to be
\* logged out are gone, and one of them, the one that failed, is still
\* there.  If a login failed: every credential that was to be logged out is
\* gone, those in both sets are there, only credentials that were to be
\* logged in were added, and one of them, the one that failed, is not there.
C39_AuthsetAfterFailedReconciliation ==
    [][\A t \in Threads :
          LET before == Rec(t).authset
              after == socks'[sock[t]].authset
              out == acopy[t] \ creds[t]
              in == creds[t] \ acopy[t]
          IN  (pc[t] \in {"auth_out", "auth_in"} /\ pc'[t] = "ret_check") =>
                 /\ after = before
                 /\ pc[t] = "auth_out" =>
                       /\ after \subseteq acopy[t]
                       /\ acopy[t] \ after \subseteq out
                       /\ out \cap after # {}
                 /\ pc[t] = "auth_in" =>
                       /\ after \cap out = {}
                       /\ acopy[t] \cap creds[t] \subseteq after
                       /\ after \ acopy[t] \subseteq in
                       /\ in \ after # {}]_vars

\* C39 witness: a logout or a login of check_auth has raised, and the
\* socket goes back to the pool with one credential in its authset.
C39_Witness ==
    \E t \in Threads :
        /\ pc[t] = "ret_check" /\ exc[t] = Error("OperationFailure")
        /\ Cardinality(Rec(t).authset) = 1

\* C40: check_auth on a socket whose authset equals the values of the
\* credential map (both may be empty) makes no logout and no login call, so
\* none can fail, and hands the socket over with its authset as it was; and
\* no check_auth logs out, or logs in again, a credential that is in the
\* authset and in the map.
C40_ReconciliationNoOpWhenEqual ==
    /\ [](\A t \in Threads :
            (pc[t] \in {"auth_out", "auth_in"} /\ acopy[t] = creds[t]) =>
               /\ ~ENABLED AuthRaise(t)
               /\ Rec(t).authset = acopy[t])
    /\ [][\A t \in Threads :
            LET before == Rec(t).authset
                after == socks'[sock[t]].authset
                both == acopy[t] \cap creds[t]
            IN  /\ (pc[t] = "auth" /\ pc'[t] # "auth" /\ creds'[t] = before) =>
                      /\ after = before
                      /\ pc'[t] = (IF before = {} THEN "body" ELSE "auth_out")
                /\ (pc[t] \in {"auth_out", "auth_in"} /\ acopy[t] = creds[t]
                       /\ pc'[t] # pc[t]) =>
                      /\ after = before
                      /\ pc'[t] = (IF pc[t] = "auth_out" THEN "auth_in" ELSE "body")
                /\ (pc[t] \in {"auth_out", "auth_in"} /\ pc'[t] \in {"auth_out", "auth_in"}) =>
                      /\ both \subseteq before
                      /\ (before \ after) \cap both = {}
                      /\ (after \ before) \cap both = {}]_vars

\* C40 witness: a pooled socket logged in with two credentials is checked
\* out again with a map of the same two: both loops found nothing to do and
\* the socket is about to be handed over.
C40_Witness ==
    \E t \in Threads :
        /\ pc[t] = "auth_in" /\ Cardinality(creds[t]) = 2
        /\ acopy[t] = creds[t] /\ Rec(t).authset = creds[t]

====
